---- MODULE Spec2Model ----
\* fastlyctl "push": the reconciliation and versioning engine of
\* cmd/fastlyctl/sync.go and util/util.go, against a model of the remote
\* configuration API (vendor/github.com/alienth/go-fastly).
EXTENDS Integers, Sequences, FiniteSets, TLC

\* ---------------------------------------------------------------------
\* Bounds
\* ---------------------------------------------------------------------
\* Object names are 1..MaxName (ordered as the API client sorts them);
\* 0 is the empty string.
MaxName == 2
\* The content of an object is one field with values 0..MaxVal; 0 is the
\* field's zero value.
MaxVal == 1

Names == 1..MaxName
Vals == 0..MaxVal

\* ---------------------------------------------------------------------
\* Categories
\* ---------------------------------------------------------------------
\* Mutant: the backends are reconciled first.
SyncOrderBackendsFirst ==
  << "backends", "dictionaries", "acls", "conditions", "healthChecks",
     "cacheSettings", "responseObjects", "requestSettings", "headers",
     "syslogs", "s3s", "domains", "settings", "gzips", "vcls" >>

\* The order in which syncService reconciles the categories.
SyncOrder ==
  << "dictionaries", "acls", "conditions", "healthChecks", "cacheSettings",
     "responseObjects", "requestSettings", "backends", "headers", "syslogs",
     "s3s", "domains", "settings", "gzips", "vcls" >>

\* Categories whose objects carry a server-assigned ID.
ContainerCats == {"dictionaries", "acls"}
\* Reconcilers that return (changesMade, error).
ChangeReportingCats == {"dictionaries", "acls", "backends"}
\* Reconcilers that fill a default into an unset field of every desired
\* entry before comparing (HTTPVersion, TimestampFormat).
DefaultingCats == {"healthChecks", "s3s"}
\* defaultHealthCheckHTTPVersion / defaultS3TimestampFormat, as a content value.
DefaultVal == 1
\* The ID the server assigns to a container.
ContainerID == 1

\* ---------------------------------------------------------------------
\* Objects
\* ---------------------------------------------------------------------
\* The zero value of a category's struct: the placeholder entry.
ZeroObj == [Name |-> 0, val |-> 0, ServiceID |-> 0, Version |-> 0, ID |-> 0]

\* A desired entry as the config file gives it: no server-side stamps.
DesiredObj(n, v) == [ZeroObj EXCEPT !.Name = n, !.val = v]

\* What the remote keeps of an object that was sent to it.
Stored(o) == [Name |-> o.Name, val |-> o.val]

\* An object as List returns it: stamped with service, version and, for
\* containers, the server-assigned ID.
Stamp(cat, svc, ver, o) ==
  [Name |-> o.Name, val |-> o.val, ServiceID |-> svc, Version |-> ver,
   ID |-> IF cat \in ContainerCats THEN ContainerID ELSE 0]

\* Mutant: the version stamp is not zeroed before the comparison.
ZeroReadOnlyKeepVersion(cat, e) ==
  [e EXCEPT !.ServiceID = 0,
            !.ID = IF cat \in ContainerCats THEN 0 ELSE @]

\* "Zero out read-only fields that we don't want to compare".
ZeroReadOnly(cat, e) ==
  [e EXCEPT !.ServiceID = 0, !.Version = 0,
            !.ID = IF cat \in ContainerCats THEN 0 ELSE @]

NamesOf(content) == {o.Name : o \in content}

MinOf(S) == CHOOSE x \in S : \A y \in S : x <= y

\* sort.Stable(xxxByName(...)) over a listing whose names are unique.
RECURSIVE SortByName(_)
SortByName(content) ==
  IF content = {} THEN << >>
  ELSE LET n == MinOf(NamesOf(content))
           o == CHOOSE x \in content : x.Name = n
       IN << o >> \o SortByName(content \ {o})

RemoveAt(s, i) == SubSeq(s, 1, i - 1) \o SubSeq(s, i + 1, Len(s))

\* ---------------------------------------------------------------------
\* The remote API, one category of one version
\* ---------------------------------------------------------------------
\* The server refuses an object without a name, a second object of the same
\* name, and an update or delete of a name it does not hold.
RemoteRejects(op, content, name, obj) ==
  CASE op = "Create" -> obj.Name = 0 \/ obj.Name \in NamesOf(content)
    [] op = "Update" -> name \notin NamesOf(content) \/ obj.Name = 0
    [] op = "Delete" -> name \notin NamesOf(content)
    [] OTHER -> FALSE

\* The server stores each object as it was sent.
RemoteEffect(op, content, name, obj) ==
  CASE op = "Create" -> content \cup {Stored(obj)}
    [] op = "Update" -> {x \in content : x.Name # name} \cup {Stored(obj)}
    [] op = "Delete" -> {x \in content : x.Name # name}
    [] op = "SettingsUpdate" -> {Stored(obj)}
    [] OTHER -> content

\* Mutant: the reconciler does not look at the error of a call.
ApiErrorIgnored(ctx, st, op, name, obj) ==
  LET fail == (st.n + 1 = ctx.failAt) \/ RemoteRejects(op, st.content, name, obj)
  IN [st EXCEPT
        !.n = @ + 1,
        !.calls = Append(@, [op |-> op, cat |-> ctx.cat, svc |-> ctx.svc,
                             ver |-> ctx.ver, arg |-> 0, name |-> name,
                             obj |-> obj, comment |-> "", ok |-> ~fail]),
        !.content = IF fail THEN @ ELSE RemoteEffect(op, @, name, obj)]

\* One API call of a reconciler. ctx.failAt numbers the call of the
\* enclosing operation that meets a transport/API error (0: none).
Api(ctx, st, op, name, obj) ==
  LET fail == (st.n + 1 = ctx.failAt) \/ RemoteRejects(op, st.content, name, obj)
  IN [st EXCEPT
        !.n = @ + 1,
        !.calls = Append(@, [op |-> op, cat |-> ctx.cat, svc |-> ctx.svc,
                             ver |-> ctx.ver, arg |-> 0, name |-> name,
                             obj |-> obj, comment |-> "", ok |-> ~fail]),
        !.err = fail,
        !.content = IF fail THEN @ ELSE RemoteEffect(op, @, name, obj)]

\* client.X.List(s.ID, newversion.Number), as the reconciler sees it.
ListOf(ctx, content) ==
  LET sorted == SortByName(content)
  IN [i \in 1..Len(sorted) |-> Stamp(ctx.cat, ctx.svc, ctx.ver, sorted[i])]

\* ---------------------------------------------------------------------
\* The category reconciler
\* ---------------------------------------------------------------------
\* A placeholder token in a desired field ("_servicename_", "_prefix_",
\* "_suffix_"), as a name or content value.
Token == 0 - 1

\* Reconcilers that substitute tokens in the name of each desired entry
\* (syncDomains) and in content fields (syncBackends, syncSyslogs, syncS3s).
NameTokenCats == {"domains"}

ValTokenCats == {"backends", "syslogs", "s3s"}

\* strings.NewReplacer("_servicename_", s.Name, ...).Replace: the token
\* becomes the value the service gives it, anything else stays.
Substitute(svc, v) == IF v = Token THEN svc ELSE v

SubstituteName(cat, svc, n) ==
  IF cat \in NameTokenCats THEN Substitute(svc, n) ELSE n

\* Mutant: the tokens are left in the desired entries.
PrepNoSubstitution(cat, svc, desired) ==
  IF cat \in DefaultingCats
  THEN [i \in 1..Len(desired) |->
          IF desired[i].val = 0 THEN [desired[i] EXCEPT !.val = DefaultVal]
          ELSE desired[i]]
  ELSE desired

\* The preparation a reconciler applies to its desired list before it lists
\* the remote objects: defaults for unset fields, tokens substituted.
Prep(cat, svc, desired) ==
  [i \in 1..Len(desired) |->
     [desired[i] EXCEPT
        !.Name = SubstituteName(cat, svc, @),
        !.val = IF cat \in DefaultingCats /\ @ = 0 THEN DefaultVal
                ELSE IF cat \in ValTokenCats THEN Substitute(svc, @)
                ELSE @]]

\* Mutant: changesMade is never set.
MarkChangedNever(ctx, st) == st

\* changesMade = true after a successful mutation, in the reconcilers that
\* report changes.
MarkChanged(ctx, st) ==
  IF ~st.err /\ ctx.cat \in ChangeReportingCats
  THEN [st EXCEPT !.changed = TRUE] ELSE st

\* Mutant: only an exact match is found, the name-only branch is missing.
MatchIndexExactOnly(e, work) ==
  LET I == {i \in 1..Len(work) : work[i] = e}
  IN IF I = {} THEN 0 ELSE MinOf(I)

\* The inner loop: the first desired entry that equals the existing object
\* or shares its name (0: none).
MatchIndex(e, work) ==
  LET I == {i \in 1..Len(work) : work[i] = e \/ work[i].Name = e.Name}
  IN IF I = {} THEN 0 ELSE MinOf(I)

RECURSIVE ExistingLoop(_, _, _, _)

\* Mutant: an existing object without a desired entry is left in place.
ExistingLoopNoDelete(ctx, st, existing, k) ==
  IF k > Len(existing) \/ st.err THEN st
  ELSE LET e == ZeroReadOnly(ctx.cat, existing[k])
           i == MatchIndex(e, st.work)
           upd == Api(ctx, st, "Update", e.Name, st.work[i])
           next == IF i = 0 THEN st
                   ELSE IF st.work[i] = e
                   THEN [st EXCEPT !.work = RemoveAt(@, i)]
                   ELSE IF upd.err THEN upd
                   ELSE MarkChanged(ctx, [upd EXCEPT !.work = RemoveAt(@, i)])
       IN ExistingLoop(ctx, next, existing, k + 1)

\* The loop over the existing objects: match, update or delete.
ExistingLoop(ctx, st, existing, k) ==
  IF k > Len(existing) \/ st.err THEN st
  ELSE LET e == ZeroReadOnly(ctx.cat, existing[k])
           i == MatchIndex(e, st.work)
           upd == Api(ctx, st, "Update", e.Name, st.work[i])
           next == IF i = 0
                   THEN MarkChanged(ctx, Api(ctx, st, "Delete", e.Name, ZeroObj))
                   ELSE IF st.work[i] = e
                   THEN [st EXCEPT !.work = RemoveAt(@, i)]
                   ELSE IF upd.err THEN upd
                   ELSE MarkChanged(ctx, [upd EXCEPT !.work = RemoveAt(@, i)])
       IN ExistingLoop(ctx, next, existing, k + 1)

\* Mutant: the create loop returns after its first Create.
CreateLoopFirstOnly(ctx, st, k) ==
  LET I == {i \in k..Len(st.work) : st.work[i] # ZeroObj}
  IN IF I = {} \/ st.err THEN st
     ELSE MarkChanged(ctx, Api(ctx, st, "Create", st.work[MinOf(I)].Name,
                               st.work[MinOf(I)]))

\* The loop over the desired entries left in the worklist: create, skipping
\* the zero-value placeholder.
RECURSIVE CreateLoop(_, _, _)
CreateLoop(ctx, st, k) ==
  IF k > Len(st.work) \/ st.err THEN st
  ELSE IF st.work[k] = ZeroObj THEN CreateLoop(ctx, st, k + 1)
  ELSE CreateLoop(ctx,
                  MarkChanged(ctx, Api(ctx, st, "Create", st.work[k].Name,
                                       st.work[k])),
                  k + 1)

\* Mutant: the existing objects are not looked at, the desired entries are
\* created.
ReconcileListCreateOnly(ctx, st, desired) ==
  LET l == Api(ctx, [st EXCEPT !.work = Prep(ctx.cat, ctx.svc, desired)],
               "List", 0, ZeroObj)
  IN IF l.err THEN l ELSE CreateLoop(ctx, l, 1)

\* A list reconciler after prepareNewVersion has returned the draft:
\* st.content is the draft's category, desired the caller's list.
ReconcileList(ctx, st, desired) ==
  LET l == Api(ctx, [st EXCEPT !.work = Prep(ctx.cat, ctx.svc, desired)],
               "List", 0, ZeroObj)
  IN IF l.err THEN l
     ELSE CreateLoop(ctx, ExistingLoop(ctx, l, ListOf(ctx, l.content), 1), 1)

\* The state a reconciler starts from.
StartState(content) ==
  [content |-> content, work |-> << >>, calls |-> << >>, n |-> 0,
   err |-> FALSE, changed |-> FALSE]

\* syncVCLs: the desired VCLs are converted first; the placeholder is
\* skipped and an entry with neither Content nor File is an error, before
\* any listing.
ReconcileVCLs(ctx, st, desired) ==
  LET named == SelectSeq(desired, LAMBDA d : d # ZeroObj)
      bad == \E i \in 1..Len(named) : named[i].val = 0
      l == Api(ctx, [st EXCEPT !.work = named], "List", 0, ZeroObj)
  IN IF bad THEN [st EXCEPT !.err = TRUE]
     ELSE IF l.err THEN l
     ELSE CreateLoop(ctx, ExistingLoop(ctx, l, ListOf(ctx, l.content), 1), 1)

\* syncSettings: the one settings object of the version is fetched and
\* updated when it differs from the desired settings.
ReconcileSettings(ctx, st, desired) ==
  LET g == Api(ctx, st, "Get", 0, ZeroObj)
      existing == ZeroReadOnly(ctx.cat,
                    Stamp(ctx.cat, ctx.svc, ctx.ver,
                          CHOOSE o \in st.content : TRUE))
  IN IF g.err THEN g
     ELSE IF desired # existing
     THEN Api(ctx, g, "SettingsUpdate", 0, desired)
     ELSE g

\* Mutant: every existing object is deleted and every desired entry is
\* created, whether or not the names match.
ReconcileRecreating(ctx, st, desired) ==
  LET l == Api(ctx, [st EXCEPT !.work = Prep(ctx.cat, ctx.svc, desired)],
               "List", 0, ZeroObj)
      del == ExistingLoop(ctx, [l EXCEPT !.work = << >>],
                          ListOf(ctx, l.content), 1)
  IN IF l.err THEN l ELSE CreateLoop(ctx, [del EXCEPT !.work = l.work], 1)

\* The reconciler of a category, after prepareNewVersion.
Reconcile(ctx, st, desired) ==
  CASE ctx.cat = "settings" -> ReconcileSettings(ctx, st, desired)
    [] ctx.cat = "vcls" -> ReconcileVCLs(ctx, st, desired)
    [] OTHER -> ReconcileList(ctx, st, desired)

Mutations(cs) ==
  SelectSeq(cs, LAMBDA c : c.op \in {"Create", "Update", "Delete"})

\* Mutant: syncService hands the list of siteConfigs itself to the
\* reconciler.
HandedShared(list) == [list |-> list, shared |-> TRUE]

\* "x := make([]T, len(config.X)); copy(x, config.X)": the reconciler is
\* handed a new array with the entries of the configured list.
Handed(list) == [list |-> list, shared |-> FALSE]

\* "new = append(new[:i], new[i+1:]...)" for the first r matches of the
\* existing objects: the entries after i move down inside the array, whose
\* slots beyond the shortened slice keep what they held.
RECURSIVE Shifted(_, _, _, _, _, _)
Shifted(cat, existing, k, slice, array, r) ==
  IF r = 0 \/ k > Len(existing) THEN array
  ELSE LET i == MatchIndex(ZeroReadOnly(cat, existing[k]), slice)
       IN IF i = 0 THEN Shifted(cat, existing, k + 1, slice, array, r)
          ELSE Shifted(cat, existing, k + 1, RemoveAt(slice, i),
                       RemoveAt(slice, i) \o SubSeq(array, Len(slice), Len(array)),
                       r - 1)

\* The array a reconciler was handed, as the reconciler leaves it: the
\* defaults and substitutions are written into its entries, and the matched
\* entries are removed by shifting. syncSettings gets its argument by value
\* and syncVCLs builds a list of its own. existing are the draft's objects
\* before the run, out is the reconciler's outcome.
ArrayAfter(ctx, existing, desired, out) ==
  IF ctx.cat \in {"settings", "vcls"} THEN desired
  ELSE LET prepped == Prep(ctx.cat, ctx.svc, desired)
       IN Shifted(ctx.cat, ListOf(ctx, existing), 1, prepped, prepped,
                  Len(prepped) - Len(out.work))

\* ---------------------------------------------------------------------
\* State
\* ---------------------------------------------------------------------
VARIABLES
  \* the reconciler on its own
  recPc,        \* "idle", "start", "ran1", "ran2", "ran3", "permuted"
  recCat,       \* the category under reconciliation
  recExisting,  \* the draft's objects of that category before the first run
  recDesired,   \* the desired list
  recOut1,      \* outcome of the first run
  recOut2,      \* outcome of a second run against the draft the first left
  recOutP,      \* outcome of a run with a permuted desired list
  recOut3,      \* outcome of a third run, against the draft the second left
  \* the remote
  versions,     \* service ID -> its versions, indexed by number
  content,      \* service ID -> version number -> category -> stored objects
  \* the push run
  pc,           \* position in syncConfig
  run,          \* number of the push invocation
  flags,        \* the command line: assumeYes, all, args, noop; and interactive
  siteConfigs,  \* service name -> category -> desired list
  services,     \* the listing syncConfig iterates over
  svcIdx,       \* position in that listing
  foundService, \* syncConfig's foundService
  catIdx,       \* syncService: position in SyncOrder
  changesMade,  \* syncService's changesMade
  pendingVersions, \* the Draft Registry
  calls,        \* the API calls of this run, in order
  reported,     \* service ID -> reconcilers that returned changesMade = true
  equalRes,     \* service ID -> what VersionsEqual returned
  prompts,      \* the prompts shown, with their answers
  carried,      \* service ID -> the draft the previous run left un-activated
  exit,         \* how the run ended: exit status and the service its message names
  \* ActivateVersion showing the diff through the pager
  pgMain,       \* the thread in ActivateVersion: "view", "write", "close", "wait", "prompt"
  pgDiff,       \* the length of the diff text, in buffers of the copy
  pgPending,    \* what of fmt.Fprintf's write the pipe's reader has not taken yet
  pgClosed,     \* stdin.Close() was called
  pgCopy,       \* the copy from the pipe to the pager's stdin: "off", "read", "write", "done"
  pgOsPipe,     \* buffers held in the pager's stdin, not yet read by the pager
  pgPager,      \* the pager process: "off", "running", "exited"
  pgDone,       \* the channel c is closed: pager.Run() has returned
  \* operations checked on their own
  bk,           \* syncBackends preparing one desired backend: pc, in, out
  aclCmd,       \* acl entry-add / entry-rm: pc, the arguments, the ACL's entries, the outcome
  pv            \* prepareNewVersion and GetActiveVersion on one service: pc, s, vers, out

recVars == << recPc, recCat, recExisting, recDesired, recOut1, recOut2, recOutP,
             recOut3 >>

remoteVars == << versions, content >>

runVars == << pc, run, flags, siteConfigs, services, svcIdx, foundService,
              catIdx, changesMade, pendingVersions, calls, reported, equalRes,
              prompts, carried, exit >>

pagerVars == << pgMain, pgDiff, pgPending, pgClosed, pgCopy, pgOsPipe, pgPager,
               pgDone >>

toolVars == << bk, aclCmd, pv >>

vars == << recVars, remoteVars, runVars, pagerVars, toolVars >>

\* The run has not ended.
Running == [code |-> "none", svc |-> 0]

\* syncConfig returned nil.
ExitOk == [code |-> "ok", svc |-> 0]

\* cli.NewExitError(message, -1): the message names service svc (0: none).
ExitError(svc) == [code |-> "error", svc |-> svc]

\* A runtime panic ends the process: non-zero status, a stack trace.
ExitPanic == [code |-> "panic", svc |-> 0]

\* The empty Draft Registry.
NoVersions == [x \in {} |-> 0]

\* The reconciler harness at rest.
RecIdle ==
  /\ recPc = "idle"
  /\ recCat = "domains"
  /\ recExisting = {}
  /\ recDesired = << >>
  /\ recOut1 = StartState({})
  /\ recOut2 = StartState({})
  /\ recOutP = StartState({})
  /\ recOut3 = StartState({})

\* The push run at rest.
RunIdle ==
  /\ versions = << >>
  /\ content = << >>
  /\ pc = "idle"
  /\ run = 0
  /\ flags = [assumeYes |-> FALSE, interactive |-> FALSE, all |-> FALSE,
              args |-> {}, noop |-> FALSE]
  /\ siteConfigs = << >>
  /\ services = << >>
  /\ svcIdx = 0
  /\ foundService = FALSE
  /\ catIdx = 0
  /\ changesMade = FALSE
  /\ pendingVersions = NoVersions
  /\ calls = << >>
  /\ reported = << >>
  /\ equalRes = << >>
  /\ prompts = << >>
  /\ carried = << >>
  /\ exit = Running

\* None of the operations checked on their own is running.
ToolsIdle ==
  /\ bk = [pc |-> "idle"]
  /\ aclCmd = [pc |-> "idle"]
  /\ pv = [pc |-> "idle"]

\* No diff is being shown.
PagerIdle ==
  /\ pgMain = "idle"
  /\ pgDiff = 0
  /\ pgPending = 0
  /\ pgClosed = FALSE
  /\ pgCopy = "off"
  /\ pgOsPipe = 0
  /\ pgPager = "off"
  /\ pgDone = FALSE

\* ---------------------------------------------------------------------
\* One category reconciler on its own
\* ---------------------------------------------------------------------
\* The number of named entries in a desired list.
MaxLen == 2

\* The reconcilers exercised on their own: one per shape of reconciler.
RecCats == {"domains", "cacheSettings", "healthChecks", "dictionaries",
            "acls", "backends", "s3s", "vcls"}

\* A dictionary or ACL has no content besides its name.
ValsOf(cat) == IF cat \in ContainerCats THEN {0} ELSE Vals

UniqueNames(S) == \A x, y \in S : x.Name = y.Name => x = y

ExistingSets(cat) ==
  {S \in SUBSET [Name : Names, val : ValsOf(cat)] : UniqueNames(S)}

\* The names and content values a desired entry of the category may have.
DesiredNamesIn(cat) == IF cat \in NameTokenCats THEN Names \cup {Token} ELSE Names

DesiredValsIn(cat) ==
  IF cat \in ValTokenCats THEN ValsOf(cat) \cup {Token} ELSE ValsOf(cat)

\* Desired lists: named entries whose names are unique once the tokens are
\* substituted, at most MaxLen of them, and at most one zero-value
\* placeholder anywhere in the list.
DesiredLists(cat) ==
  LET E == {DesiredObj(n, v) : n \in DesiredNamesIn(cat), v \in DesiredValsIn(cat)}
             \cup {ZeroObj}
      name(e) == SubstituteName(cat, 1, e.Name)
  IN UNION {{d \in [1..k -> E] :
               /\ \A i, j \in 1..k : name(d[i]) = name(d[j]) => i = j
               /\ Cardinality({i \in 1..k : d[i] # ZeroObj}) <= MaxLen}
            : k \in 0..(MaxLen + 1)}

Reorderings(d) ==
  {[i \in 1..Len(d) |-> d[q[i]]] :
     q \in {f \in [1..Len(d) -> 1..Len(d)] :
              \A i, j \in 1..Len(d) : f[i] = f[j] => i = j}}

\* The service and draft version the lone reconciler works on.
RecCtx(cat, failAt) == [cat |-> cat, svc |-> 1, ver |-> 2, failAt |-> failAt]

FailPoints == 0..(2 + 2 * MaxName)

NoOut == StartState({})

InitRec ==
  /\ recPc = "start"
  /\ recCat \in RecCats
  /\ recExisting \in ExistingSets(recCat)
  /\ recDesired \in DesiredLists(recCat)
  /\ recOut1 = NoOut
  /\ recOut2 = NoOut
  /\ recOutP = NoOut
  /\ recOut3 = NoOut
  /\ RunIdle
  /\ PagerIdle
  /\ ToolsIdle

\* The reconciler runs against the draft; any one of its calls may fail.
RecFirst ==
  /\ recPc = "start"
  /\ \E f \in FailPoints :
       LET out == Reconcile(RecCtx(recCat, f), StartState(recExisting), recDesired)
       IN /\ f <= out.n
          /\ recOut1' = out
  /\ recPc' = "ran1"
  /\ UNCHANGED << recCat, recExisting, recDesired, recOut2, recOutP, recOut3 >>
  /\ UNCHANGED << remoteVars, runVars, pagerVars, toolVars >>

\* The reconciler runs again with the same desired list against the draft
\* as the first run left it.
RecSecond ==
  /\ recPc = "ran1"
  /\ recOut2' = Reconcile(RecCtx(recCat, 0), StartState(recOut1.content),
                          recDesired)
  /\ recPc' = "ran2"
  /\ UNCHANGED << recCat, recExisting, recDesired, recOut1, recOutP, recOut3 >>
  /\ UNCHANGED << remoteVars, runVars, pagerVars, toolVars >>

\* The reconciler runs from the same initial draft with the desired list
\* in another order.
RecPermuted ==
  /\ recPc = "ran1"
  /\ ~recOut1.err
  /\ \E p \in Reorderings(recDesired) :
       recOutP' = [Reconcile(RecCtx(recCat, 0), StartState(recExisting), p)
                     EXCEPT !.work = p]
  /\ recPc' = "permuted"
  /\ UNCHANGED << recCat, recExisting, recDesired, recOut1, recOut2, recOut3 >>
  /\ UNCHANGED << remoteVars, runVars, pagerVars, toolVars >>

\* One more run with the same desired list, against the draft as the second
\* run left it.
RecThird ==
  /\ recPc = "ran2"
  /\ recOut3' = Reconcile(RecCtx(recCat, 0), StartState(recOut2.content),
                          recDesired)
  /\ recPc' = "ran3"
  /\ UNCHANGED << recCat, recExisting, recDesired, recOut1, recOut2, recOutP >>
  /\ UNCHANGED << remoteVars, runVars, pagerVars, toolVars >>

NextRec == RecFirst \/ RecSecond \/ RecPermuted \/ RecThird

SpecRec == InitRec /\ [][NextRec]_vars

\* ---------------------------------------------------------------------
\* The remote: services, versions, diffs
\* ---------------------------------------------------------------------
\* The remote services, by ID; a service's name is its ID.
Services == {1, 2}

versionComment == "fastly-ctl"

Version(n, active, locked, comment) ==
  [Number |-> n, Active |-> active, Locked |-> locked, Comment |-> comment]

Cats == {SyncOrder[i] : i \in 1..Len(SyncOrder)}

\* A call on the version, diff or service endpoints, as logged.
VCall(op, kind, svc, ver, arg, ok) ==
  [op |-> op, cat |-> kind, svc |-> svc, ver |-> ver, arg |-> arg,
   name |-> 0, obj |-> ZeroObj, comment |-> "", ok |-> ok]

\* The objects that show in the generated configuration of a version:
\* dictionary and ACL containers leave no trace in the diff.
Rendered(c) == UNION {{<< cat, o >> : o \in c[cat]} : cat \in Cats \ ContainerCats}

\* The text the diff endpoint returns for two versions of a service.
DiffText(cont, from, to) ==
  [removed |-> Rendered(cont[from]) \ Rendered(cont[to]),
   added |-> Rendered(cont[to]) \ Rendered(cont[from])]

\* The number of the active version of a service.
ActiveNumber(vers) == CHOOSE i \in 1..Len(vers) : vers[i].Active

\* client.Service.List(): the services sorted by name, each with its
\* active version number and its versions.
ServiceListing(vs) ==
  [i \in 1..Cardinality(Services) |->
     [ID |-> i, Name |-> i, Version |-> ActiveNumber(vs[i]), Versions |-> vs[i]]]

\* Activating a version makes it the one active version and locks it.
ActivateEffect(vers, n) ==
  [i \in 1..Len(vers) |->
     IF i = n THEN [vers[i] EXCEPT !.Active = TRUE, !.Locked = TRUE]
     ELSE [vers[i] EXCEPT !.Active = FALSE]]

\* ---------------------------------------------------------------------
\* util.GetActiveVersion, util.VersionsEqual
\* ---------------------------------------------------------------------
GetActiveVersion(s) ==
  LET A == {i \in 1..Len(s.Versions) : s.Versions[i].Active}
  IN IF s.Version # 0 THEN [err |-> FALSE, number |-> s.Version]
     ELSE IF A # {} THEN [err |-> FALSE, number |-> s.Versions[MinOf(A)].Number]
     ELSE [err |-> TRUE, number |-> 0]

\* Mutant: any two diff texts are taken for the same.
SameTextAlways(noDiff, diff) == TRUE

\* "noDiff.Diff == diff.Diff".
SameText(noDiff, diff) == noDiff = diff

\* Mutant: the second diff is requested for (from, from) again.
VersionsEqualSelfTwice(svc, cont, from, to, failAt) ==
  [calls |-> << VCall("Diff", "equal", svc, from, from, TRUE),
                VCall("Diff", "equal", svc, from, from, TRUE) >>,
   err |-> FALSE,
   equal |-> (DiffText(cont, from, from) = DiffText(cont, from, from))]

\* failAt: which of the two diff requests fails (0: none).
VersionsEqual(svc, cont, from, to, failAt) ==
  LET c1 == VCall("Diff", "equal", svc, from, from, failAt # 1)
      c2 == VCall("Diff", "equal", svc, from, to, failAt # 2)
      noDiff == DiffText(cont, from, from)
      diff == DiffText(cont, from, to)
  IN IF failAt = 1 THEN [calls |-> << c1 >>, err |-> TRUE, equal |-> FALSE]
     ELSE IF failAt = 2 THEN [calls |-> << c1, c2 >>, err |-> TRUE, equal |-> FALSE]
     ELSE [calls |-> << c1, c2 >>, err |-> FALSE, equal |-> SameText(noDiff, diff)]

\* ---------------------------------------------------------------------
\* prepareNewVersion
\* ---------------------------------------------------------------------
\* Mutant: the registry is never consulted.
RegistryHitNever(s, reg) == FALSE

\* "See if we've already prepared a version".
RegistryHit(s, reg) == s.ID \in DOMAIN reg

\* Mutant: a locked version is taken for a draft.
ReusableIgnoringLock(v, s) ==
  v.Number > s.Version /\ v.Comment = versionComment /\ ~v.Active

\* "Look for an inactive version higher than our current version".
Reusable(v, s) ==
  v.Number > s.Version /\ v.Comment = versionComment /\ ~v.Active /\ ~v.Locked

\* Mutant: the clone keeps the comment it was cloned with.
StampedUnmarked(v) == v

\* "newversion.Comment = versionComment", before the Update.
Stamped(v) == [v EXCEPT !.Comment = versionComment]

\* Mutant: the loop over the versions returns the service's active version.
ReusedVersionActive(vers, R, s) == vers[s.Version]

\* The version the loop over the listing returns: the first that is
\* reusable.
ReusedVersion(vers, R, s) == vers[MinOf(R)]

Register(reg, id, v) ==
  [x \in DOMAIN reg \cup {id} |-> IF x = id THEN v ELSE reg[x]]

Unregister(reg, id) == [x \in DOMAIN reg \ {id} |-> reg[x]]

\* prepareNewVersion(client, s) with the registry reg, the service's
\* versions vers and their content cont; n0 API calls were issued before in
\* the enclosing operation and call number failAt fails. crash: the nil
\* *Version of a failed Clone is dereferenced.
PrepareNewVersion(s, failAt, reg, vers, cont, n0) ==
  LET same == [reg |-> reg, vers |-> vers, cont |-> cont, calls |-> << >>,
               n |-> n0, err |-> FALSE, crash |-> FALSE,
               version |-> Version(0, FALSE, FALSE, "")]
      list == VCall("VersionList", "version", s.ID, 0, 0, failAt # n0 + 1)
      R == {i \in 1..Len(vers) : Reusable(vers[i], s)}
      cloneOk == failAt # n0 + 2 /\ s.Version \in 1..Len(vers)
      clone == VCall("Clone", "version", s.ID, s.Version, 0, cloneOk)
      cloned == Version(Len(vers) + 1, FALSE, FALSE, vers[s.Version].Comment)
      newversion == Stamped(cloned)
      updateOk == failAt # n0 + 3
      update == [VCall("VersionUpdate", "version", s.ID, newversion.Number, 0,
                       updateOk) EXCEPT !.comment = newversion.Comment]
  IN IF RegistryHit(s, reg) THEN [same EXCEPT !.version = reg[s.ID]]
     ELSE IF ~list.ok
     THEN [same EXCEPT !.calls = << list >>, !.n = n0 + 1, !.err = TRUE]
     ELSE IF R # {}
     THEN [same EXCEPT !.calls = << list >>, !.n = n0 + 1,
                       !.reg = Register(reg, s.ID, ReusedVersion(vers, R, s)),
                       !.version = ReusedVersion(vers, R, s)]
     ELSE IF ~cloneOk
     THEN [same EXCEPT !.calls = << list, clone >>, !.n = n0 + 2,
                       !.err = TRUE, !.crash = TRUE]
     ELSE IF ~updateOk
     THEN [same EXCEPT !.calls = << list, clone, update >>, !.n = n0 + 3,
                       !.err = TRUE,
                       !.vers = Append(vers, cloned),
                       !.cont = Append(cont, cont[s.Version]),
                       !.version = newversion]
     ELSE [same EXCEPT !.calls = << list, clone, update >>, !.n = n0 + 3,
                       !.vers = Append(vers, newversion),
                       !.cont = Append(cont, cont[s.Version]),
                       !.reg = Register(reg, s.ID, newversion),
                       !.version = newversion]

\* ---------------------------------------------------------------------
\* The push run: syncConfig, syncService, ValidateVersion, ActivateVersion
\* ---------------------------------------------------------------------
\* The number of push invocations followed.
MaxRuns == 2

EmptyConfig == [c \in Cats |-> IF c = "settings" THEN ZeroObj ELSE << >>]

EmptyContent == [c \in Cats |-> IF c = "settings" THEN {Stored(ZeroObj)} ELSE {}]

\* The cases of one category: << desired list, objects of the active version >>.
InSync == << << >>, {} >>
ToCreate == << << DesiredObj(1, 0) >>, {} >>
ToDelete == << << >>, {Stored(DesiredObj(1, 0))} >>
ToUpdate == << << DesiredObj(1, 1) >>, {Stored(DesiredObj(1, 0))} >>
\* A desired entry whose defaulted field is unset in the config file.
ToDefault == << << DesiredObj(1, 0) >>, {} >>

\* The configurations and active versions the run starts from, as the
\* cases of << dictionaries, acls, backends, cacheSettings, healthChecks >>.
ScenarioCases ==
  { << InSync, InSync, InSync, InSync, InSync >>,
    << ToCreate, InSync, InSync, InSync, InSync >>,
    << ToDelete, InSync, InSync, InSync, InSync >>,
    << InSync, ToCreate, InSync, InSync, InSync >>,
    << InSync, InSync, ToUpdate, InSync, InSync >>,
    << InSync, InSync, InSync, ToUpdate, InSync >>,
    << ToCreate, InSync, ToUpdate, InSync, InSync >>,
    << InSync, InSync, ToUpdate, ToUpdate, InSync >>,
    << InSync, InSync, InSync, InSync, ToDefault >> }

\* What is desired and what the active version holds, per category.
Scenarios ==
  {[c \in Cats |->
      CASE c = "dictionaries" -> k[1]
        [] c = "acls" -> k[2]
        [] c = "backends" -> k[3]
        [] c = "cacheSettings" -> k[4]
        [] c = "healthChecks" -> k[5]
        [] c = "settings" -> << ZeroObj, {Stored(ZeroObj)} >>
        [] OTHER -> InSync] : k \in ScenarioCases}

\* The versions a service starts with: only the active one; a draft left
\* by an earlier run; a draft of someone else; an old marked version below
\* the active one; a marked version that is locked.
VersionLayouts ==
  { << Version(1, TRUE, TRUE, "") >>,
    << Version(1, TRUE, TRUE, ""), Version(2, FALSE, FALSE, versionComment) >>,
    << Version(1, TRUE, TRUE, ""), Version(2, FALSE, FALSE, "other") >>,
    << Version(1, FALSE, FALSE, versionComment),
       Version(2, TRUE, TRUE, versionComment) >>,
    << Version(1, TRUE, TRUE, ""), Version(2, FALSE, TRUE, versionComment) >> }

\* No draft of the service was left by the previous run.
NoDraftLeft == [number |-> 0, why |-> "none", count |-> 0]

\* The invocations of push: --all with and without a terminal and
\* --assume-yes; --all --noop at a terminal; and, with --assume-yes and no
\* terminal, every combination of --all and service names.
Invocations ==
  {[assumeYes |-> a, interactive |-> i, all |-> TRUE, args |-> {},
    noop |-> FALSE] : a \in BOOLEAN, i \in BOOLEAN}
  \cup {[assumeYes |-> FALSE, interactive |-> TRUE, all |-> TRUE, args |-> {},
          noop |-> TRUE]}
  \cup {[assumeYes |-> TRUE, interactive |-> FALSE, all |-> al, args |-> ar,
          noop |-> FALSE] : al \in BOOLEAN, ar \in SUBSET Services}

Init ==
  /\ RecIdle
  /\ PagerIdle
  /\ ToolsIdle
  /\ pc = "start"
  /\ run = 1
  /\ flags \in Invocations
  /\ \E layout \in VersionLayouts, sc \in Scenarios, second \in BOOLEAN :
       /\ second => Len(layout) = 1 /\ sc["cacheSettings"] = InSync
       /\ versions = << layout, << Version(1, TRUE, TRUE, "") >> >>
       /\ content = << [i \in 1..Len(layout) |-> [c \in Cats |-> sc[c][2]]],
                       << EmptyContent >> >>
       /\ siteConfigs = [n \in (IF second THEN {1, 2} ELSE {1}) |->
                           IF n = 1 THEN [c \in Cats |-> sc[c][1]]
                           ELSE EmptyConfig]
  /\ services = << >>
  /\ svcIdx = 0
  /\ foundService = FALSE
  /\ catIdx = 0
  /\ changesMade = FALSE
  /\ pendingVersions = NoVersions
  /\ calls = << >>
  /\ reported = [s \in Services |-> {}]
  /\ equalRes = [s \in Services |-> "none"]
  /\ prompts = << >>
  /\ carried = [s \in Services |-> NoDraftLeft]
  /\ exit = Running

\* The failing call of one step of the run (0: none).
RunFailPoints == 0..(4 + MaxName)

\* Mutant: the Before hook accepts every invocation.
BeforeHookAcceptsAll(fl) == FALSE

\* The Before hook of push returns an error: no terminal and no
\* --assume-yes, or neither --all nor service names, or both.
BeforeHook(fl) ==
  \/ ~fl.interactive /\ ~fl.assumeYes
  \/ ~fl.all /\ fl.args = {}
  \/ fl.all /\ fl.args # {}

\* Mutant: every listed service passes the filter.
SelectedAlways(fl, name) == TRUE

\* syncConfig's filter: c.Bool("all") or the service is named in c.Args().
Selected(fl, name) == fl.all \/ name \in fl.args

\* push: the Before hook, then syncConfig up to the service listing.
StartRun ==
  /\ pc = "start"
  /\ IF BeforeHook(flags)
     THEN /\ pc' = "failed"
          /\ UNCHANGED << calls, services, svcIdx >>
     ELSE \E ok \in BOOLEAN :
            /\ calls' = << VCall("ServiceList", "service", 0, 0, 0, ok) >>
            /\ pc' = IF ok THEN "loop" ELSE "failed"
            /\ services' = IF ok THEN ServiceListing(versions) ELSE services
            /\ svcIdx' = IF ok THEN 1 ELSE svcIdx
  /\ pendingVersions' = NoVersions
  /\ foundService' = FALSE
  /\ UNCHANGED << recVars, pagerVars, toolVars, remoteVars, run, flags, siteConfigs, catIdx,
                  changesMade, reported, equalRes, prompts, carried >>
  /\ exit' = IF pc' = "failed" THEN ExitError(0) ELSE exit
\* syncConfig: the loop over the services has ended.
FinishLoop ==
  /\ pc = "loop"
  /\ svcIdx > Len(services)
  /\ pc' = IF foundService THEN "done" ELSE "failed"
  /\ UNCHANGED << recVars, pagerVars, toolVars, remoteVars, run, flags, siteConfigs, services,
                  svcIdx, foundService, catIdx, changesMade, pendingVersions,
                  calls, reported, equalRes, prompts, carried >>
  /\ exit' = IF foundService THEN ExitOk ELSE ExitError(0)
\* syncConfig: "Only configure services for which configs have been
\* specified", and of those the ones the command line selects.
SkipService ==
  /\ pc = "loop"
  /\ svcIdx <= Len(services)
  /\ \/ services[svcIdx].Name \notin DOMAIN siteConfigs
     \/ ~Selected(flags, services[svcIdx].Name)
  /\ svcIdx' = svcIdx + 1
  /\ UNCHANGED << recVars, pagerVars, toolVars, remoteVars, pc, run, flags, siteConfigs, services,
                  foundService, catIdx, changesMade, pendingVersions, calls,
                  reported, equalRes, prompts, carried, exit >>

\* syncConfig enters syncService, which starts with GetActiveVersion.
EnterService ==
  /\ pc = "loop"
  /\ svcIdx <= Len(services)
  /\ services[svcIdx].Name \in DOMAIN siteConfigs
  /\ Selected(flags, services[svcIdx].Name)
  /\ foundService' = TRUE
  /\ pc' = IF GetActiveVersion(services[svcIdx]).err THEN "failed" ELSE "sync"
  /\ catIdx' = 1
  /\ changesMade' = FALSE
  /\ UNCHANGED << recVars, pagerVars, toolVars, remoteVars, run, flags, siteConfigs, services,
                  svcIdx, pendingVersions, calls, reported, equalRes, prompts, carried >>
  /\ exit' = IF pc' = "failed" THEN ExitError(services[svcIdx].Name) ELSE exit
\* Mutant: the reconciler addresses the service's active version.
CallVersionActive(s, v) == s.Version

\* The version number a reconciler passes to its API calls.
CallVersion(s, v) == v.Number

\* Mutant: syncConfig goes on to the next service when the draft of one
\* could not be obtained.
DraftErrorSkipsService(crash, idx) == [pc |-> "loop", idx |-> idx + 1]

\* An error of prepareNewVersion ends the run: the reconciler and
\* syncService return it and syncConfig returns an exit error without
\* looking at the next service; a panic ends the process.
DraftError(crash, idx) ==
  [pc |-> IF crash THEN "crashed" ELSE "failed", idx |-> idx]

\* syncService: the reconciler of the next category, which begins with
\* prepareNewVersion.
SyncCategory ==
  /\ pc = "sync"
  /\ \E f \in RunFailPoints :
       LET s == services[svcIdx]
           cat == SyncOrder[catIdx]
           p == PrepareNewVersion(s, f, pendingVersions, versions[s.ID],
                                  content[s.ID], 0)
           ver == CallVersion(s, p.version)
           ctx == [cat |-> cat, svc |-> s.ID, ver |-> ver, failAt |-> f]
           handed == Handed(siteConfigs[s.Name][cat])
           r == Reconcile(ctx, [StartState(p.cont[ver][cat]) EXCEPT !.n = p.n],
                          handed.list)
       IN /\ pendingVersions' = p.reg
          /\ versions' = [versions EXCEPT ![s.ID] = p.vers]
          /\ IF p.err
             THEN /\ f <= p.n
                  /\ pc' = DraftError(p.crash, svcIdx).pc
                  /\ svcIdx' = DraftError(p.crash, svcIdx).idx
                  /\ calls' = calls \o p.calls
                  /\ content' = [content EXCEPT ![s.ID] = p.cont]
                  /\ UNCHANGED << catIdx, changesMade, reported, siteConfigs >>
             ELSE /\ f <= r.n
                  /\ svcIdx' = svcIdx
                  /\ siteConfigs' =
                       IF handed.shared
                       THEN [siteConfigs EXCEPT ![s.Name][cat] =
                               ArrayAfter(ctx, p.cont[ver][cat], handed.list, r)]
                       ELSE siteConfigs
                  /\ calls' = calls \o p.calls \o r.calls
                  /\ content' = [content EXCEPT ![s.ID] =
                                   [p.cont EXCEPT ![ver][cat] = r.content]]
                  /\ changesMade' = IF cat \in ChangeReportingCats
                                    THEN r.changed ELSE changesMade
                  /\ reported' = IF r.changed
                                 THEN [reported EXCEPT ![s.ID] = @ \cup {cat}]
                                 ELSE reported
                  /\ pc' = IF r.err THEN "failed"
                           ELSE IF catIdx = Len(SyncOrder) THEN "equal"
                           ELSE "sync"
                  /\ catIdx' = IF r.err \/ catIdx = Len(SyncOrder)
                               THEN catIdx ELSE catIdx + 1
  /\ UNCHANGED << recVars, pagerVars, toolVars, run, flags, services, foundService, equalRes,
                  prompts, carried >>
  /\ exit' = CASE pc' = "crashed" -> ExitPanic
              [] pc' = "failed" -> ExitError(services[svcIdx].Name)
              [] OTHER -> exit
\* Mutant: the draft is kept whatever the comparison says.
KeepDraftAlways(equal, changed) == TRUE

\* syncService's last test: the draft leaves the registry when the versions
\* are equal and changesMade is false.
KeepDraft(equal, changed) == ~(equal /\ ~changed)

\* syncService: the equivalence check that ends it.
CheckVersionsEqual ==
  /\ pc = "equal"
  /\ LET s == services[svcIdx]
     IN IF s.ID \notin DOMAIN pendingVersions
        THEN /\ pc' = "synced"
             /\ UNCHANGED << calls, equalRes, pendingVersions >>
        ELSE \E f \in 0..2 :
               LET ve == VersionsEqual(s.ID, content[s.ID],
                                       GetActiveVersion(s).number,
                                       pendingVersions[s.ID].Number, f)
               IN /\ calls' = calls \o ve.calls
                  /\ equalRes' = [equalRes EXCEPT ![s.ID] =
                                    IF ve.err THEN "error"
                                    ELSE IF ve.equal THEN "equal" ELSE "differ"]
                  /\ pc' = IF ve.err THEN "failed" ELSE "synced"
                  /\ pendingVersions' =
                       IF ve.err \/ KeepDraft(ve.equal, changesMade)
                       THEN pendingVersions
                       ELSE Unregister(pendingVersions, s.ID)
  /\ UNCHANGED << recVars, pagerVars, toolVars, remoteVars, run, flags, siteConfigs, services,
                  svcIdx, foundService, catIdx, changesMade, reported, prompts, carried >>
  /\ exit' = IF pc' = "failed" THEN ExitError(services[svcIdx].Name) ELSE exit
\* syncConfig: no draft is pending for the service; on to the next one.
SkipActivation ==
  /\ pc = "synced"
  /\ services[svcIdx].ID \notin DOMAIN pendingVersions
  /\ svcIdx' = svcIdx + 1
  /\ pc' = "loop"
  /\ UNCHANGED << recVars, pagerVars, toolVars, remoteVars, run, flags, siteConfigs, services,
                  foundService, catIdx, changesMade, pendingVersions, calls,
                  reported, equalRes, prompts, carried, exit >>

\* What the validate endpoint answers: the draft is valid, the draft is
\* invalid (a 2xx response whose ValidateResponse has Status "error" and the
\* server's message in Errors), or the request fails (transport error or a
\* non-2xx response).
ValidateAnswers == {"ok", "invalid", "error"}

\* client.Version.Validate: the call as logged. err is non-nil only when
\* the request fails; arg is 1 when the response body says Status "error".
ValidateCall(svc, ver, answer) ==
  VCall("Validate", "validate", svc, ver,
        IF answer = "invalid" THEN 1 ELSE 0, answer # "error")

\* Mutant: syncConfig goes on to ActivateVersion whatever ValidateVersion
\* returned.
AfterValidateIgnoringError(c) == "activate"

\* util.ValidateVersion looks at the error of the call only; syncConfig
\* returns on that error and otherwise calls util.ActivateVersion.
AfterValidate(c) == IF c.ok THEN "activate" ELSE "failed"

\* syncConfig: util.ValidateVersion on the pending draft.
ValidateVersion ==
  /\ pc = "synced"
  /\ services[svcIdx].ID \in DOMAIN pendingVersions
  /\ \E answer \in ValidateAnswers :
       LET c == ValidateCall(services[svcIdx].ID,
                             pendingVersions[services[svcIdx].ID].Number, answer)
       IN /\ calls' = Append(calls, c)
          /\ pc' = AfterValidate(c)
  /\ UNCHANGED << recVars, pagerVars, toolVars, remoteVars, run, flags, siteConfigs, services,
                  svcIdx, foundService, catIdx, changesMade, pendingVersions,
                  reported, equalRes, prompts, carried >>
  /\ exit' = IF pc' = "failed" THEN ExitError(services[svcIdx].ID) ELSE exit
Answers == {"y", "n", "eof"}

\* Mutant: a "y" to "View?" is still in proceed when the activation is
\* decided.
ProceedKeptFromView(fl, a1, a2) == ~fl.assumeYes /\ (a1 = "y" \/ a2 = "y")

\* The variable proceed where ActivateVersion tests it before Activate: it
\* is false unless a prompt was answered, and the answer to "Activate
\* version ...?" replaces the answer to "View?".
Proceed(fl, a1, a2) == ~fl.assumeYes /\ a2 = "y"

\* util.ActivateVersion(c, client, s, v): f is the failing call (1: the
\* diff, 2: the activation), a1 and a2 the user's answers to "View?" and
\* "Activate version ...?".
ActivateOutcome(s, v, fl, f, a1, a2) ==
  LET active == GetActiveVersion(s)
      diff == VCall("Diff", "activate", s.ID, active.number, v.Number, f # 1)
      act == VCall("Activate", "activate", s.ID, v.Number, 0, f # 2)
      view == [svc |-> s.ID, question |-> "View?", answer |-> a1]
      confirm == [svc |-> s.ID, question |-> "Activate?", answer |-> a2]
      asked == IF fl.assumeYes THEN << >> ELSE << view, confirm >>
      out == [calls |-> << >>, prompts |-> << >>, err |-> TRUE,
              activated |-> FALSE]
  IN IF active.err THEN out
     ELSE IF f = 1 THEN [out EXCEPT !.calls = << diff >>]
     ELSE IF ~fl.interactive /\ ~fl.assumeYes
     THEN [out EXCEPT !.calls = << diff >>]
     ELSE IF ~fl.assumeYes /\ a1 = "eof"
     THEN [out EXCEPT !.calls = << diff >>, !.prompts = << view >>]
     ELSE IF ~fl.assumeYes /\ a2 = "eof"
     THEN [out EXCEPT !.calls = << diff >>, !.prompts = << view, confirm >>]
     ELSE IF Proceed(fl, a1, a2) \/ fl.assumeYes
     THEN [out EXCEPT !.calls = << diff, act >>, !.prompts = asked,
                      !.err = ~act.ok, !.activated = act.ok]
     ELSE [out EXCEPT !.calls = << diff >>, !.prompts = asked, !.err = FALSE]

\* syncConfig: util.ActivateVersion on the validated draft.
ActivateVersion ==
  /\ pc = "activate"
  /\ \E f \in 0..2, a1 \in Answers, a2 \in Answers :
       LET s == services[svcIdx]
           v == pendingVersions[s.ID]
           o == ActivateOutcome(s, v, flags, f, a1, a2)
       IN /\ f = 2 => Len(o.calls) = 2
          /\ calls' = calls \o o.calls
          /\ prompts' = prompts \o o.prompts
          /\ versions' = IF o.activated
                         THEN [versions EXCEPT ![s.ID] = ActivateEffect(@, v.Number)]
                         ELSE versions
          /\ pc' = IF o.err THEN "failed" ELSE "loop"
          /\ svcIdx' = IF o.err THEN svcIdx ELSE svcIdx + 1
  /\ UNCHANGED << recVars, pagerVars, toolVars, content, run, flags, siteConfigs, services,
                  foundService, catIdx, changesMade, pendingVersions, reported,
                  equalRes, carried >>
  /\ exit' = IF pc' = "failed" THEN ExitError(services[svcIdx].Name) ELSE exit
\* The version the reconcilers of service s addressed in this run (0: none).
DraftOf(s) ==
  LET I == {i \in 1..Len(calls) : calls[i].svc = s /\ calls[i].cat \in Cats}
  IN IF I = {} THEN 0 ELSE calls[MinOf(I)].ver

\* What the run that ends leaves of the draft of service s: nothing when no
\* draft was worked on or the draft was activated; else its number, how the
\* run left it, and the number of versions the service has.
LeftDraft(s) ==
  LET d == DraftOf(s)
      declined == \E k \in 1..Len(prompts) :
                    /\ prompts[k].svc = s
                    /\ prompts[k].question = "Activate?"
                    /\ prompts[k].answer = "n"
  IN IF d = 0 \/ versions[s][d].Active THEN NoDraftLeft
     ELSE [number |-> d,
           why |-> IF pc = "done" /\ declined THEN "declined"
                   ELSE IF pc = "done" /\ equalRes[s] = "equal"
                           /\ s \notin DOMAIN pendingVersions
                   THEN "nochanges"
                   ELSE "interrupted",
           count |-> Len(versions[s])]

\* The tool is invoked again, on the remote as the last run left it.
NewRun ==
  /\ pc \in {"done", "failed", "crashed"}
  /\ run < MaxRuns
  /\ run' = run + 1
  /\ pc' = "start"
  /\ services' = << >>
  /\ svcIdx' = 0
  /\ foundService' = FALSE
  /\ catIdx' = 0
  /\ changesMade' = FALSE
  /\ pendingVersions' = NoVersions
  /\ calls' = << >>
  /\ reported' = [s \in Services |-> {}]
  /\ equalRes' = [s \in Services |-> "none"]
  /\ prompts' = << >>
  /\ carried' = [s \in Services |-> LeftDraft(s)]
  /\ UNCHANGED << recVars, pagerVars, toolVars, remoteVars, flags, siteConfigs >>
  /\ exit' = Running
Next ==
  \/ StartRun
  \/ FinishLoop
  \/ SkipService
  \/ EnterService
  \/ SyncCategory
  \/ CheckVersionsEqual
  \/ SkipActivation
  \/ ValidateVersion
  \/ ActivateVersion
  \/ NewRun

Spec == Init /\ [][Next]_vars

\* ---------------------------------------------------------------------
\* ActivateVersion: the diff goes through the pager
\* ---------------------------------------------------------------------
\* The longest diff text, in buffers of the copy into the pager's stdin.
MaxChunks == 3
\* The buffers the pager's stdin holds before a write to it blocks.
PipeCap == 2

\* The user answered "View?" with yes, a pager was found, the session is
\* interactive: ActivateVersion is about to show a diff of some length.
InitPager ==
  /\ RecIdle
  /\ RunIdle
  /\ ToolsIdle
  /\ pgMain = "view"
  /\ pgDiff \in 1..MaxChunks
  /\ pgPending = 0
  /\ pgClosed = FALSE
  /\ pgCopy = "off"
  /\ pgOsPipe = 0
  /\ pgPager = "off"
  /\ pgDone = FALSE

\* "r, stdin := io.Pipe(); pager.Stdin = r; go func() { defer close(c);
\* pager.Run() }()", and fmt.Fprintf(stdin, diff.Diff) hands the whole text
\* to the pipe in one Write. pager.Run() starts the process and, as
\* pager.Stdin is not a file, a copy from r to the process's stdin.
StartPager ==
  /\ pgMain = "view"
  /\ pgMain' = "write"
  /\ pgPending' = pgDiff
  /\ pgPager' = "running"
  /\ pgCopy' = "read"
  /\ UNCHANGED << pgDiff, pgClosed, pgOsPipe, pgDone >>
  /\ UNCHANGED << recVars, remoteVars, runVars, toolVars >>

\* The copy reads from r: it takes one buffer of the pending write, or
\* meets the end of the input once stdin was closed and closes the pager's
\* stdin. With nothing pending and stdin open the read blocks.
CopyRead ==
  /\ pgCopy = "read"
  /\ \/ /\ pgPending > 0
        /\ pgPending' = pgPending - 1
        /\ pgCopy' = "write"
     \/ /\ pgPending = 0
        /\ pgClosed
        /\ pgCopy' = "done"
        /\ UNCHANGED pgPending
  /\ UNCHANGED << pgMain, pgDiff, pgClosed, pgOsPipe, pgPager, pgDone >>
  /\ UNCHANGED << recVars, remoteVars, runVars, toolVars >>

\* The copy writes the buffer to the pager's stdin: the write fails when
\* the pager has exited, which ends the copy; it blocks while the pager's
\* stdin is full.
CopyWrite ==
  /\ pgCopy = "write"
  /\ \/ /\ pgPager = "exited"
        /\ pgCopy' = "done"
        /\ UNCHANGED pgOsPipe
     \/ /\ pgPager = "running"
        /\ pgOsPipe < PipeCap
        /\ pgOsPipe' = pgOsPipe + 1
        /\ pgCopy' = "read"
  /\ UNCHANGED << pgMain, pgDiff, pgPending, pgClosed, pgPager, pgDone >>
  /\ UNCHANGED << recVars, remoteVars, runVars, toolVars >>

\* fmt.Fprintf(stdin, diff.Diff) returns: a write to an io.Pipe returns
\* when the reader has taken all of it.
WriteReturns ==
  /\ pgMain = "write"
  /\ pgPending = 0
  /\ pgMain' = "close"
  /\ UNCHANGED << pgDiff, pgPending, pgClosed, pgCopy, pgOsPipe, pgPager, pgDone >>
  /\ UNCHANGED << recVars, remoteVars, runVars, toolVars >>

\* stdin.Close()
CloseStdin ==
  /\ pgMain = "close"
  /\ pgClosed' = TRUE
  /\ pgMain' = "wait"
  /\ UNCHANGED << pgDiff, pgPending, pgCopy, pgOsPipe, pgPager, pgDone >>
  /\ UNCHANGED << recVars, remoteVars, runVars, toolVars >>

\* The pager reads a buffer from its stdin.
PagerReads ==
  /\ pgPager = "running"
  /\ pgOsPipe > 0
  /\ pgOsPipe' = pgOsPipe - 1
  /\ UNCHANGED << pgMain, pgDiff, pgPending, pgClosed, pgCopy, pgPager, pgDone >>
  /\ UNCHANGED << recVars, remoteVars, runVars, toolVars >>

\* The user leaves the pager, whatever it has read so far.
PagerExits ==
  /\ pgPager = "running"
  /\ pgPager' = "exited"
  /\ UNCHANGED << pgMain, pgDiff, pgPending, pgClosed, pgCopy, pgOsPipe, pgDone >>
  /\ UNCHANGED << recVars, remoteVars, runVars, toolVars >>

\* pager.Run() returns when the process has exited and the copy into its
\* stdin has ended; the deferred close(c) follows.
RunReturns ==
  /\ pgPager = "exited"
  /\ pgCopy = "done"
  /\ ~pgDone
  /\ pgDone' = TRUE
  /\ UNCHANGED << pgMain, pgDiff, pgPending, pgClosed, pgCopy, pgOsPipe, pgPager >>
  /\ UNCHANGED << recVars, remoteVars, runVars, toolVars >>

\* "<-c" returns and ActivateVersion goes on to the activation prompt.
WaitReturns ==
  /\ pgMain = "wait"
  /\ pgDone
  /\ pgMain' = "prompt"
  /\ UNCHANGED << pgDiff, pgPending, pgClosed, pgCopy, pgOsPipe, pgPager, pgDone >>
  /\ UNCHANGED << recVars, remoteVars, runVars, toolVars >>

NextPager ==
  \/ StartPager
  \/ CopyRead
  \/ CopyWrite
  \/ WriteReturns
  \/ CloseStdin
  \/ PagerReads
  \/ PagerExits
  \/ RunReturns
  \/ WaitReturns

\* Every thread that can take a step takes one eventually, and the user
\* leaves the pager at some time.
SpecPager == InitPager /\ [][NextPager]_vars /\ WF_vars(NextPager)

\* ---------------------------------------------------------------------
\* syncBackends: the related address fields of a desired backend
\* ---------------------------------------------------------------------
\* Strings are sequences of characters here.
EmptyStr == << >>
\* A host name, an IPv4 literal and an IPv6 literal in canonical form.
HostStr == << "h" >>
V4Str == << "1", ".", "1", ".", "1", ".", "1" >>
V6Str == << ":", ":", "1" >>
\* The token "_servicename_" and the service name that replaces it.
ServiceToken == << "_servicename_" >>
ServiceNameStr == << "s" >>

AddressStrings == {EmptyStr, HostStr, V4Str, V6Str, ServiceToken}

\* strings.Contains(str, substr)
Contains(str, substr) ==
  \E i \in 1..(Len(str) - Len(substr) + 1) :
    SubSeq(str, i, i + Len(substr) - 1) = substr

\* r.Replace(x) of the replacer built from the service.
Replace(x) == IF x = ServiceToken THEN ServiceNameStr ELSE x

\* net.ParseIP(x): the address when x is an IP literal, nil (the empty
\* string here) otherwise; parsed.String() of a canonical literal is the
\* literal.
ParseIP(x) ==
  IF Contains(x, << "." >>) \/ Contains(x, << ":" >>) THEN x ELSE EmptyStr

\* Mutant: up to two of the parameters may be set.
checkMutuallyExclusiveUpToTwo(a, b, c, d) ==
  Cardinality({i \in 1..4 : << a, b, c, d >>[i] # EmptyStr}) <= 2

\* checkMutuallyExclusive: false when count > 1.
checkMutuallyExclusive(a, b, c, d) ==
  ~(Cardinality({i \in 1..4 : << a, b, c, d >>[i] # EmptyStr}) > 1)

\* The first loop of syncBackends on one entry: the tokens are replaced.
Replaced(b) ==
  [b EXCEPT !.Address = Replace(@), !.Hostname = Replace(@),
            !.IPV4 = Replace(@), !.IPV6 = Replace(@)]

\* The second loop of syncBackends on one entry that passed
\* checkMutuallyExclusive: "We must duplicate this logic locally".
Completed(b) ==
  IF b.Address # EmptyStr
  THEN IF ParseIP(b.Address) # EmptyStr
       THEN IF Contains(<< ":" >>, ParseIP(b.Address))
            THEN [b EXCEPT !.IPV6 = ParseIP(b.Address)]
            ELSE [b EXCEPT !.IPV4 = ParseIP(b.Address)]
       ELSE [b EXCEPT !.Hostname = b.Address]
  ELSE IF b.Hostname # EmptyStr THEN [b EXCEPT !.Address = b.Hostname]
  ELSE IF b.IPV4 # EmptyStr THEN [b EXCEPT !.Address = b.IPV4]
  ELSE IF b.IPV6 # EmptyStr THEN [b EXCEPT !.Address = b.IPV6]
  ELSE b

\* What the API stores for a backend sent with one of the related fields:
\* "The Address field is automatically filled by the API with the
\* Hostname, IPV4, or IPV6 value if one of those are specified. Vice versa
\* is also true."
ApiStores(b) ==
  LET a == IF b.Address # EmptyStr THEN b.Address
           ELSE IF b.Hostname # EmptyStr THEN b.Hostname
           ELSE IF b.IPV4 # EmptyStr THEN b.IPV4 ELSE b.IPV6
  IN IF a = EmptyStr THEN b
     ELSE [Name |-> b.Name, Address |-> a,
           Hostname |-> IF ParseIP(a) = EmptyStr THEN a ELSE EmptyStr,
           IPV4 |-> IF Contains(a, << "." >>) THEN a ELSE EmptyStr,
           IPV6 |-> IF Contains(a, << ":" >>) THEN a ELSE EmptyStr]

\* A backend API call of the lone syncBackends.
BkCall(op, b) == [op |-> op, name |-> b.Name, obj |-> b]

\* syncBackends with one desired backend b against a draft that holds
\* the backends existing (none or one of the same name).
SyncBackends(b, existing) ==
  LET sub == Replaced(b)
      new == Completed(sub)
      list == BkCall("List", [b EXCEPT !.Name = 0])
  IN IF ~checkMutuallyExclusive(sub.Address, sub.Hostname, sub.IPV4, sub.IPV6)
     THEN [err |-> TRUE, named |-> b.Name, backend |-> sub, calls |-> << >>]
     ELSE [err |-> FALSE, named |-> 0, backend |-> new,
           calls |-> IF existing = {} THEN << list, BkCall("Create", new) >>
                     ELSE IF new \in existing THEN << list >>
                     ELSE << list, BkCall("Update", new) >>]

\* A desired backend with any of the related fields set, and a draft that
\* is empty or holds what the API stored when that backend was sent.
InitBackend ==
  /\ RecIdle
  /\ RunIdle
  /\ PagerIdle
  /\ aclCmd = [pc |-> "idle"]
  /\ pv = [pc |-> "idle"]
  /\ \E b \in [Name : {1}, Address : AddressStrings, Hostname : AddressStrings,
                 IPV4 : AddressStrings, IPV6 : AddressStrings],
        held \in BOOLEAN :
       bk = [pc |-> "start", in |-> b,
             existing |-> IF held THEN {ApiStores(Replaced(b))} ELSE {}]

SyncBackendsOne ==
  /\ bk.pc = "start"
  /\ bk' = [pc |-> "done", in |-> bk.in, existing |-> bk.existing,
            out |-> SyncBackends(bk.in, bk.existing)]
  /\ UNCHANGED << recVars, remoteVars, runVars, pagerVars, aclCmd, pv >>

NextBackend == SyncBackendsOne

SpecBackend == InitBackend /\ [][NextBackend]_vars

\* ---------------------------------------------------------------------
\* acl entry-add and acl entry-rm
\* ---------------------------------------------------------------------
Digits == << "0", "1", "2", "3", "4", "5", "6", "7", "8", "9" >>

IsDigit(c) == \E i \in 1..Len(Digits) : Digits[i] = c

DigitVal(c) == (CHOOSE i \in 1..Len(Digits) : Digits[i] = c) - 1

\* The number a string of decimal digits denotes.
RECURSIVE Decimal(_)
Decimal(str) ==
  IF str = << >> THEN 0
  ELSE Decimal(SubSeq(str, 1, Len(str) - 1)) * Len(Digits) + DigitVal(str[Len(str)])

\* strconv.Atoi(str): an optional sign and one or more decimal digits.
Atoi(str) ==
  LET signed == str # << >> /\ str[1] \in {"+", "-"}
      ds == IF signed THEN Tail(str) ELSE str
  IN IF ds = << >> \/ \E i \in 1..Len(ds) : ~IsDigit(ds[i])
     THEN [err |-> TRUE, val |-> 0]
     ELSE [err |-> FALSE,
           val |-> IF signed /\ str[1] = "-" THEN 0 - Decimal(ds) ELSE Decimal(ds)]

\* The number of values of a uint8.
Uint8Values == 256

\* uint8(s) of an int s.
Uint8(s) == s % Uint8Values

\* strings.Split(str, sep) for a separator of one character.
RECURSIVE Split(_, _)
Split(str, sep) ==
  LET I == {i \in 1..Len(str) : str[i] = sep}
  IN IF I = {} THEN << str >>
     ELSE << SubSeq(str, 1, MinOf(I) - 1) >>
            \o Split(SubSeq(str, MinOf(I) + 1, Len(str)), sep)

ipMaskSplit(ipParam) ==
  LET ipSplit == Split(ipParam, "/")
      s == Atoi(ipSplit[2])
  IN IF Len(ipSplit) = 2
     THEN IF s.err THEN [ip |-> EmptyStr, subnet |-> 0, err |-> TRUE]
          ELSE [ip |-> ipSplit[1], subnet |-> Uint8(s.val), err |-> FALSE]
     ELSE [ip |-> ipSplit[1], subnet |-> 0, err |-> FALSE]

\* An ACL entry; the ID 0 is the empty ID.
ACLEntry(id, ip, subnet) == [ID |-> id, IP |-> ip, Subnet |-> subnet]

\* A *fastly.ACLEntry: nil, or the address of an entry.
NilEntry == [nil |-> TRUE, at |-> ACLEntry(0, EmptyStr, 0)]
NewEntry == [nil |-> FALSE, at |-> ACLEntry(0, EmptyStr, 0)]
EntryAt(e) == [nil |-> FALSE, at |-> e]

\* A call of an acl command, as logged.
AclCall(op, id, ip, subnet, ok) ==
  [op |-> op, id |-> id, ip |-> ip, subnet |-> subnet, ok |-> ok]

\* The exit of an acl command.
AclOk == [code |-> "ok", msg |-> ""]
AclError(msg) == [code |-> "error", msg |-> msg]

\* getACL: Service.Search, GetActiveVersion, ACL.Get.
getACL(failAt) ==
  LET search == AclCall("Service.Search", 0, EmptyStr, 0, failAt # 1)
      get == AclCall("ACL.Get", 0, EmptyStr, 0, failAt # 2)
  IN IF ~search.ok THEN [err |-> TRUE, calls |-> << search >>]
     ELSE [err |-> ~get.ok, calls |-> << search, get >>]

\* The first entry of the listing with the IP and the subnet, or the
\* entry the variable was initialised with.
FoundEntry(entries, ip, subnet) ==
  LET M == {e \in entries : e.IP = ip /\ e.Subnet = subnet}
  IN IF M = {} THEN NewEntry
     ELSE EntryAt(CHOOSE e \in M : \A o \in M : e.ID <= o.ID)

aclRemoveEntry(arg, entries, failAt) ==
  LET split == ipMaskSplit(arg)
      acl == getACL(failAt)
      list == AclCall("ACLEntry.List", 0, EmptyStr, 0, failAt # 3)
      entry == FoundEntry(entries, split.ip, split.subnet)
      delete == AclCall("ACLEntry.Delete", entry.at.ID, entry.at.IP,
                        entry.at.Subnet, failAt # 4)
      base == [split |-> split, entries |-> entries, calls |-> << >>,
               exit |-> AclOk]
  IN IF split.err
     THEN [base EXCEPT !.exit = AclError("Invalid subnet mask specified")]
     ELSE IF acl.err
     THEN [base EXCEPT !.calls = acl.calls, !.exit = AclError("api")]
     ELSE IF ~list.ok
     THEN [base EXCEPT !.calls = Append(acl.calls, list), !.exit = AclError("api")]
     ELSE IF entry = NilEntry
     THEN [base EXCEPT !.calls = Append(acl.calls, list),
                       !.exit = AclError("Unable to find ACL entry")]
     ELSE IF ~delete.ok
     THEN [base EXCEPT !.calls = acl.calls \o << list, delete >>,
                       !.exit = AclError("api")]
     ELSE [base EXCEPT !.calls = acl.calls \o << list, delete >>,
                       !.entries = {e \in entries : e.ID # entry.at.ID}]

aclAddEntry(arg, entries, failAt) ==
  LET split == ipMaskSplit(arg)
      acl == getACL(failAt)
      id == Cardinality(entries) + 1
      create == AclCall("ACLEntry.Create", 0, split.ip, split.subnet, failAt # 3)
      base == [split |-> split, entries |-> entries, calls |-> << >>,
               exit |-> AclOk]
  IN IF split.err
     THEN [base EXCEPT !.exit = AclError("Invalid subnet mask specified")]
     ELSE IF acl.err
     THEN [base EXCEPT !.calls = acl.calls, !.exit = AclError("api")]
     ELSE IF ~create.ok
     THEN [base EXCEPT !.calls = Append(acl.calls, create), !.exit = AclError("api")]
     ELSE [base EXCEPT !.calls = Append(acl.calls, create),
                       !.entries = entries \cup {ACLEntry(id, split.ip, split.subnet)}]

\* The addresses and the masks of the arguments.
IpStrings == {<< "10.0.0.1" >>, << "10.0.0.2" >>}

MaskStrings ==
  {<< "0" >>, << "8" >>, << "2", "4" >>, << "4", "4" >>, << "2", "5", "5" >>,
   << "2", "5", "6" >>, << "3", "0", "0" >>, << "-", "1" >>, << "+", "8" >>,
   << "x" >>, << >>}

IpParams ==
  IpStrings
    \cup {ip \o << "/" >> \o m : ip \in IpStrings, m \in MaskStrings}
    \cup {ip \o << "/", "8", "/", "8" >> : ip \in IpStrings}

\* The ACLs the commands run against: entries 1..k of these.
StoredEntries ==
  << ACLEntry(1, << "10.0.0.1" >>, 24), ACLEntry(2, << "10.0.0.1" >>, 44),
     ACLEntry(3, << "10.0.0.2" >>, 0) >>

\* The calls of the longest command: Search, Get, List, Delete.
MaxAclCalls == 4

InitAcl ==
  /\ RecIdle
  /\ RunIdle
  /\ PagerIdle
  /\ bk = [pc |-> "idle"]
  /\ pv = [pc |-> "idle"]
  /\ \E cmd \in {"entry-add", "entry-rm"}, arg \in IpParams,
        k \in 0..Len(StoredEntries), failAt \in 0..MaxAclCalls :
       aclCmd = [pc |-> "start", cmd |-> cmd, arg |-> arg, failAt |-> failAt,
                 entries |-> {StoredEntries[i] : i \in 1..k}]

AclAddEntry ==
  /\ aclCmd.pc = "start"
  /\ aclCmd.cmd = "entry-add"
  /\ aclCmd' = [aclCmd EXCEPT !.pc = "done"] @@
               [out |-> aclAddEntry(aclCmd.arg, aclCmd.entries, aclCmd.failAt)]
  /\ UNCHANGED << recVars, remoteVars, runVars, pagerVars, bk, pv >>

AclRemoveEntry ==
  /\ aclCmd.pc = "start"
  /\ aclCmd.cmd = "entry-rm"
  /\ aclCmd' = [aclCmd EXCEPT !.pc = "done"] @@
               [out |-> aclRemoveEntry(aclCmd.arg, aclCmd.entries, aclCmd.failAt)]
  /\ UNCHANGED << recVars, remoteVars, runVars, pagerVars, bk, pv >>

NextAcl == AclAddEntry \/ AclRemoveEntry

SpecAcl == InitAcl /\ [][NextAcl]_vars

\* ---------------------------------------------------------------------
\* syncService up to the draft, for a service as the API may return it
\* ---------------------------------------------------------------------
\* The listings of a service of n versions: at most one version is active
\* (and locked), the others are locked or not and carry the marker or not.
ListingsOfLen(n) ==
  {vs \in [1..n -> [Number : 1..n, Active : BOOLEAN, Locked : BOOLEAN,
                    Comment : {"", versionComment}]] :
     /\ \A i \in 1..n : vs[i].Number = i
     /\ \A i \in 1..n : vs[i].Active => vs[i].Locked
     /\ \A i, j \in 1..n : (vs[i].Active /\ vs[j].Active) => i = j}

\* A service as decoded from a response: Version is filled with the
\* number of the active version, or left at zero ("version,omitempty").
FetchedServices ==
  UNION {{[ID |-> 1, Name |-> 1, Version |-> v, Versions |-> vs] :
            v \in {0} \cup {i \in 1..Len(vs) : vs[i].Active}} :
         vs \in UNION {ListingsOfLen(n) : n \in 1..MaxLen}}

\* The calls of prepareNewVersion: List, Clone, Update.
MaxVersionCalls == 3

InitPrepare ==
  /\ RecIdle
  /\ RunIdle
  /\ PagerIdle
  /\ bk = [pc |-> "idle"]
  /\ aclCmd = [pc |-> "idle"]
  /\ \E s \in FetchedServices, failAt \in 0..MaxVersionCalls :
       pv = [pc |-> "start", s |-> s, failAt |-> failAt]

\* syncService on the fetched service: GetActiveVersion, then the
\* prepareNewVersion of the first reconciler.
SyncServicePrepare ==
  /\ pv.pc = "start"
  /\ LET active == GetActiveVersion(pv.s)
         cont == [i \in 1..Len(pv.s.Versions) |-> EmptyContent]
     IN pv' = [pv EXCEPT !.pc = "done"] @@
              [active |-> active,
               prep |-> IF active.err
                        THEN [calls |-> << >>, err |-> TRUE, crash |-> FALSE,
                              version |-> Version(0, FALSE, FALSE, ""),
                              vers |-> pv.s.Versions]
                        ELSE LET p == PrepareNewVersion(pv.s, pv.failAt, NoVersions,
                                                        pv.s.Versions, cont, 0)
                             IN [calls |-> p.calls, err |-> p.err, crash |-> p.crash,
                                 version |-> p.version, vers |-> p.vers]]
  /\ UNCHANGED << recVars, remoteVars, runVars, pagerVars, bk, aclCmd >>

NextPrepare == SyncServicePrepare

SpecPrepare == InitPrepare /\ [][NextPrepare]_vars

\* ---------------------------------------------------------------------
\* Properties of the category reconciler
\* ---------------------------------------------------------------------
RecRan == recPc \in {"ran1", "ran2", "ran3", "permuted"}

\* The names the desired list asks for: those of its entries other than
\* the zero-value placeholder.
DesiredNames(d) ==
  {SubstituteName(recCat, 1, d[i].Name) : i \in {j \in 1..Len(d) : d[j] # ZeroObj}}

CallsOn(cs, n) == SelectSeq(Mutations(cs), LAMBDA c : c.name = n)

HasOp(cs, op) == \E i \in 1..Len(cs) : cs[i].op = op /\ cs[i].ok

\* C1: after a category reconciler returns without error, the set of names
\* in the draft's category is exactly the set of desired names.
C1_NamesExact ==
  (RecRan /\ ~recOut1.err) =>
     NamesOf(recOut1.content) = DesiredNames(recDesired)

C1_Witness ==
  /\ recPc = "ran1" /\ ~recOut1.err
  /\ HasOp(recOut1.calls, "Create") /\ HasOp(recOut1.calls, "Delete")
  /\ NamesOf(recExisting) # DesiredNames(recDesired)
  /\ NamesOf(recOut1.content) = DesiredNames(recDesired)

\* What C2 expects for name n: the mutation calls that name it.
ExpectedCallsOn(cat, existing, desired, cs, n) ==
  LET P == Prep(cat, RecCtx(cat, 0).svc, desired)
      Mn == CallsOn(cs, n)
      inE == n \in NamesOf(existing)
      inD == \E i \in 1..Len(P) : P[i].Name = n
      d == P[CHOOSE i \in 1..Len(P) : P[i].Name = n]
      e == CHOOSE x \in existing : x.Name = n
  IN CASE inE /\ inD ->
            IF Stored(d) = e THEN Len(Mn) = 0
            ELSE Len(Mn) = 1 /\ Mn[1].op = "Update" /\ Mn[1].obj = d /\ Mn[1].ok
       [] inE /\ ~inD -> Len(Mn) = 1 /\ Mn[1].op = "Delete" /\ Mn[1].ok
       [] ~inE /\ inD ->
            Len(Mn) = 1 /\ Mn[1].op = "Create" /\ Mn[1].obj = d /\ Mn[1].ok
       [] OTHER -> Len(Mn) = 0

NoPlaceholder(d) == \A i \in 1..Len(d) : d[i] # ZeroObj

\* C2: with unique names on both sides and no placeholder, a reconciler that
\* completes issues exactly one Update carrying the desired entry for each
\* name on both sides whose content differs, exactly one Delete for each
\* remote-only name, exactly one Create for each desired-only name, and no
\* call for an object that already equals its desired entry.
C2_MinimalCalls ==
  (RecRan /\ ~recOut1.err /\ NoPlaceholder(recDesired)) =>
     /\ \A n \in Names :
          ExpectedCallsOn(recCat, recExisting, recDesired, recOut1.calls, n)
     /\ \A i \in 1..Len(recOut1.calls) :
          recOut1.calls[i].op \in {"Create", "Update", "Delete"}
             => recOut1.calls[i].name \in Names

C2_Witness ==
  /\ recPc = "ran1" /\ ~recOut1.err /\ NoPlaceholder(recDesired)
  /\ Len(Mutations(recOut1.calls)) = 1
  /\ HasOp(recOut1.calls, "Update")
  /\ Cardinality(recExisting) = 2
  /\ Len(recDesired) = 2

\* C3: a second run with the same desired list against the draft the first
\* run left issues no create, update or delete.
C3_SecondRunIdle ==
  (recPc = "ran2" /\ ~recOut1.err) =>
     ~recOut2.err /\ Mutations(recOut2.calls) = << >>

C3_Witness ==
  /\ recPc = "ran2" /\ ~recOut1.err
  /\ Len(Mutations(recOut1.calls)) >= 2
  /\ Len(recOut2.calls) = 1 /\ recOut2.calls[1].op = "List"

\* C4: any reordering of the desired list leads the reconciler to the same
\* final objects of the category, from the same initial draft.
C4_OrderIndependent ==
  (recPc = "permuted" /\ ~recOut1.err) =>
     ~recOutP.err /\ recOutP.content = recOut1.content

C4_Witness ==
  /\ recPc = "permuted" /\ ~recOut1.err
  /\ recOutP.work # recDesired
  /\ Len(Mutations(recOut1.calls)) >= 2
  /\ recOutP.calls # recOut1.calls
  /\ recOutP.content = recOut1.content

\* ---------------------------------------------------------------------
\* Properties of the push run
\* ---------------------------------------------------------------------
\* The service the loop of syncConfig is at.
Cur == services[svcIdx]

ReconcilerCall(c) == c.cat \in Cats

VersionOps == {"VersionList", "Clone", "VersionUpdate"}

\* The calls a step adds to the log.
NewCalls == SubSeq(calls', Len(calls) + 1, Len(calls'))

NewVersionCalls == SelectSeq(NewCalls, LAMBDA c : c.op \in VersionOps)

CallsOf(s, ops) ==
  SelectSeq(calls, LAMBDA c : c.svc = s /\ c.op \in ops /\ ~ReconcilerCall(c))

\* C5: during one push run every call of a category reconciler for a
\* service carries the same version number, the one the Draft Registry
\* holds for that service.
C5_SameDraft ==
  \A i \in 1..Len(calls) :
    ReconcilerCall(calls[i]) =>
      /\ calls[i].ver = DraftOf(calls[i].svc)
      /\ calls[i].svc \in DOMAIN pendingVersions
            => calls[i].ver = pendingVersions[calls[i].svc].Number

C5_Witness ==
  /\ pc = "equal"
  /\ Cur.ID \in DOMAIN pendingVersions
  /\ pendingVersions[Cur.ID].Number # Cur.Version
  /\ \E i, j \in 1..Len(calls) :
       /\ calls[i].cat = "dictionaries" /\ calls[i].op = "Create" /\ calls[i].ok
       /\ calls[j].cat = "backends" /\ calls[j].op = "Update" /\ calls[j].ok
       /\ calls[i].ver = pendingVersions[Cur.ID].Number
       /\ calls[j].ver = pendingVersions[Cur.ID].Number

\* C6: once the Draft Registry holds a version for the service, a later
\* prepareNewVersion of the run returns that version and issues no version
\* List, Clone or Update.
C6_RegistryMemoizes ==
  [][(pc = "sync" /\ Cur.ID \in DOMAIN pendingVersions) =>
        /\ pendingVersions' = pendingVersions
        /\ NewVersionCalls = << >>
        /\ \A i \in 1..Len(NewCalls) :
             NewCalls[i].ver = pendingVersions[Cur.ID].Number]_vars

C6_Witness ==
  /\ pc = "sync"
  /\ catIdx >= 3
  /\ Cur.ID \in DOMAIN pendingVersions
  /\ Len(CallsOf(Cur.ID, {"VersionList"})) = 1
  /\ Len(CallsOf(Cur.ID, {"Clone"})) = 1
  /\ Len(SelectSeq(calls, LAMBDA c : c.op = "List" /\ c.ok)) >= 2

\* The versions of a listing that prepareNewVersion may take for its draft.
Drafts(vers, active) ==
  {i \in 1..Len(vers) :
     /\ vers[i].Number > active
     /\ vers[i].Comment = "fastly-ctl"
     /\ ~vers[i].Active
     /\ ~vers[i].Locked}

\* C7: with no registry entry for the service, prepareNewVersion clones if
\* and only if the listing has no version above the active one that carries
\* the marker comment and is neither active nor locked. Such a version is
\* registered and returned without Clone or Update; otherwise one Clone of
\* the active version is followed by one Update setting the marker comment,
\* and the clone is registered only after that Update.
C7_ReuseOrClone ==
  [][(/\ pc = "sync"
      /\ Cur.ID \notin DOMAIN pendingVersions
      /\ Len(NewVersionCalls) >= 1
      /\ NewVersionCalls[1].ok) =>
        LET vc == NewVersionCalls
            vs == versions[Cur.ID]
            D == Drafts(vs, Cur.Version)
            registered == Cur.ID \in DOMAIN pendingVersions'
        IN /\ vc[1].op = "VersionList"
           /\ (\E i \in 1..Len(vc) : vc[i].op = "Clone") <=> D = {}
           /\ D # {} =>
                /\ Len(vc) = 1
                /\ registered
                /\ pendingVersions'[Cur.ID] = vs[MinOf(D)]
                /\ versions' = versions
           /\ D = {} =>
                /\ Len(vc) \in {2, 3}
                /\ vc[2].op = "Clone" /\ vc[2].ver = Cur.Version
                /\ Len(vc) = 3 <=> vc[2].ok
                /\ Len(vc) = 3 =>
                     /\ vc[3].op = "VersionUpdate"
                     /\ vc[3].ver = Len(vs) + 1
                     /\ vc[3].comment = "fastly-ctl"
                /\ registered <=> (Len(vc) = 3 /\ vc[3].ok)
                /\ registered =>
                     /\ pendingVersions'[Cur.ID].Number = Len(vs) + 1
                     /\ pendingVersions'[Cur.ID].Comment = "fastly-ctl"]_vars

C7_Witness ==
  /\ pc = "sync"
  /\ catIdx = 2
  /\ Cur.ID \in DOMAIN pendingVersions
  /\ Len(CallsOf(Cur.ID, {"Clone"})) = 1
  /\ Len(CallsOf(Cur.ID, {"VersionUpdate"})) = 1
  /\ \E i \in 1..Len(versions[Cur.ID]) :
       /\ i > Cur.Version
       /\ versions[Cur.ID][i].Comment = "fastly-ctl"
       /\ versions[Cur.ID][i].Locked
  /\ pendingVersions[Cur.ID].Number = Len(versions[Cur.ID])

\* A dictionary or ACL container of service s was created or deleted.
ContainerChanged(s) ==
  \E i \in 1..Len(calls) :
    /\ calls[i].svc = s
    /\ calls[i].cat \in ContainerCats
    /\ calls[i].op \in {"Create", "Delete"}
    /\ calls[i].ok

\* C8: if syncDictionaries or syncACLs created or deleted a container, the
\* draft is still in the Draft Registry when syncService ends and the
\* activation is offered for it, whatever the diff says.
C8_ContainerChangeKeepsDraft ==
  /\ (pc = "synced" /\ ContainerChanged(Cur.ID))
        => Cur.ID \in DOMAIN pendingVersions
  /\ \A i \in 1..Len(services) :
       (pc \in {"loop", "done"} /\ i < svcIdx /\ ContainerChanged(services[i].ID))
          => CallsOf(services[i].ID, {"Validate"}) # << >>

\* C9: when VersionsEqual returns true and no reconciler reported changes,
\* the service's registry entry is removed and the run issues no Validate,
\* no Activate and no prompt for the service.
C9_EqualDropsDraft ==
  \A s \in Services :
    (equalRes[s] = "equal" /\ reported[s] = {}) =>
       /\ s \notin DOMAIN pendingVersions
       /\ CallsOf(s, {"Validate", "Activate"}) = << >>
       /\ \A i \in 1..Len(prompts) : prompts[i].svc # s

C9_Witness ==
  /\ pc = "done"
  /\ equalRes[1] = "equal"
  /\ reported[1] = {}
  /\ Len(CallsOf(1, {"Clone"})) = 1
  /\ CallsOf(1, {"Validate", "Activate"}) = << >>
  /\ 1 \notin DOMAIN pendingVersions

\* The draft of service s shows other objects than its active version.
Differs(s) ==
  /\ DraftOf(s.ID) # 0
  /\ Rendered(content[s.ID][DraftOf(s.ID)]) # Rendered(content[s.ID][s.Version])

LastCall == calls[Len(calls)]

\* C10: when reconciliation left the draft different from the active
\* version, VersionsEqual returns false, the draft stays in the Draft
\* Registry, and the next step of the run validates the draft; the
\* activation gate is reached when the validation passes.
C10_DifferenceReachesGate ==
  /\ []((pc = "synced" /\ Differs(Cur)) =>
          /\ equalRes[Cur.ID] = "differ"
          /\ Cur.ID \in DOMAIN pendingVersions
          /\ pendingVersions[Cur.ID].Number = DraftOf(Cur.ID))
  /\ [][(pc = "synced" /\ Differs(Cur)) =>
          /\ pendingVersions' = pendingVersions
          /\ Len(NewCalls) = 1
          /\ NewCalls[1].op = "Validate"
          /\ NewCalls[1].svc = Cur.ID
          /\ NewCalls[1].ver = DraftOf(Cur.ID)
          /\ pc' = (IF NewCalls[1].ok THEN "activate" ELSE "failed")
          /\ svcIdx' = svcIdx]_vars

C10_Witness ==
  /\ pc = "activate"
  /\ Differs(Cur)
  /\ equalRes[Cur.ID] = "differ"
  /\ LastCall.op = "Validate" /\ LastCall.ok
  /\ LastCall.ver = pendingVersions[Cur.ID].Number

C12_InvalidDraftNotActivated ==
  \A j \in 1..Len(calls) :
    (calls[j].op = "Validate" /\ calls[j].arg = 1) =>
      /\ j = Len(calls)
      /\ pc = "failed"
      /\ \A i \in 1..Len(calls) :
           calls[i].op = "Activate" => calls[i].svc # calls[j].svc

LastPrompt == prompts[Len(prompts)]

\* C13: ActivateVersion issues Activate only with --assume-yes or after a
\* "y" to the activation prompt; a "y" to "View?" alone does not activate,
\* and after an "n" to the activation prompt it returns without error and
\* without an Activate call.
C13_ActivationNeedsConsent ==
  /\ [](\A i \in 1..Len(calls) :
          calls[i].op = "Activate" =>
            \/ flags.assumeYes
            \/ \E k \in 1..Len(prompts) :
                 /\ prompts[k].svc = calls[i].svc
                 /\ prompts[k].question = "Activate?"
                 /\ prompts[k].answer = "y")
  /\ [][(/\ pc = "activate"
         /\ Len(prompts') = Len(prompts) + 2
         /\ prompts'[Len(prompts')].question = "Activate?"
         /\ prompts'[Len(prompts')].answer = "n") =>
           /\ pc' = "loop"
           /\ svcIdx' = svcIdx + 1
           /\ \A i \in 1..Len(NewCalls) : NewCalls[i].op # "Activate"
           /\ versions' = versions]_vars

C13_Witness ==
  /\ pc = "loop"
  /\ ~flags.assumeYes
  /\ Len(prompts) = 2
  /\ prompts[1].question = "View?" /\ prompts[1].answer = "y"
  /\ LastPrompt.question = "Activate?" /\ LastPrompt.answer = "n"
  /\ LastCall.op = "Diff" /\ LastCall.cat = "activate"
  /\ ~versions[LastCall.svc][LastCall.arg].Active

\* ---------------------------------------------------------------------
\* Drafts across runs
\* ---------------------------------------------------------------------
\* C14: a draft that the previous run left un-activated, because the user
\* declined the activation or because the run found no changes, is the
\* version the next run works on: that run issues no Clone for the service
\* and the service gets no further version.
C14_LeftDraftReused ==
  \A s \in Services :
    carried[s].why \in {"declined", "nochanges"} =>
       /\ CallsOf(s, {"Clone"}) = << >>
       /\ DraftOf(s) \in {0, carried[s].number}
       /\ s \in DOMAIN pendingVersions
             => pendingVersions[s].Number = carried[s].number
       /\ Len(versions[s]) = carried[s].count

C14_Witness ==
  /\ run = 2
  /\ pc = "equal"
  /\ carried[1].why = "declined"
  /\ CallsOf(1, {"VersionList"}) # << >>
  /\ CallsOf(1, {"Clone"}) = << >>
  /\ 1 \in DOMAIN pendingVersions
  /\ pendingVersions[1].Number = carried[1].number
  /\ DraftOf(1) = carried[1].number

\* ---------------------------------------------------------------------
\* Errors inside a reconciler
\* ---------------------------------------------------------------------
\* What the calls cs that succeeded make of the objects c0 of category cat
\* of service s.
RECURSIVE Replay(_, _, _, _)
Replay(c0, cs, s, cat) ==
  IF cs = << >> THEN c0
  ELSE LET c == Head(cs)
       IN Replay(IF c.svc = s /\ c.cat = cat /\ c.ok
                 THEN RemoteEffect(c.op, c0, c.name, c.obj) ELSE c0,
                 Tail(cs), s, cat)

\* Version 1 is never a draft: in the first run it holds the objects every
\* version of the service started with.
Original(s) == content[s][1]

\* C15: a call that fails inside a category reconciler is the last call of
\* the run: the reconciler returns at once and syncService starts no later
\* category; and the draft holds what the calls that succeeded before made
\* of it, nothing is rolled back.
C15_ErrorStopsNoRollback ==
  /\ \A i \in 1..Len(calls) :
       (ReconcilerCall(calls[i]) /\ ~calls[i].ok) =>
          i = Len(calls) /\ pc = "failed"
  /\ \A s \in Services :
       (run = 1 /\ DraftOf(s) # 0) =>
          \A cat \in Cats :
            content[s][DraftOf(s)][cat] = Replay(Original(s)[cat], calls, s, cat)

C15_Witness ==
  /\ run = 1
  /\ pc = "failed"
  /\ Len(calls) >= 2
  /\ LastCall.cat = "backends" /\ LastCall.op = "Update" /\ ~LastCall.ok
  /\ \E i \in 1..Len(calls) :
       /\ calls[i].cat = "dictionaries" /\ calls[i].op = "Create" /\ calls[i].ok
       /\ calls[i].svc = LastCall.svc
  /\ content[LastCall.svc][LastCall.ver]["dictionaries"]
        # Original(LastCall.svc)["dictionaries"]
  /\ content[LastCall.svc][LastCall.ver]["backends"]
        = Original(LastCall.svc)["backends"]

\* The objects a desired list asks for, as the remote stores them.
DesiredContent(cat, d) ==
  LET P == Prep(cat, RecCtx(cat, 0).svc, d)
  IN {Stored(P[i]) : i \in {j \in 1..Len(P) : P[j].Name # 0}}

\* C16: after a reconciler was interrupted by an error, a re-run with the
\* same desired list against the same draft that meets no error ends with
\* the draft's category equal to the desired list, and one more run issues
\* no mutation.
C16_RetryConverges ==
  (recPc = "ran3" /\ recOut1.err /\ ~recOut2.err) =>
     /\ recOut2.content = DesiredContent(recCat, recDesired)
     /\ ~recOut3.err
     /\ Mutations(recOut3.calls) = << >>

C16_Witness ==
  /\ recPc = "ran3"
  /\ recOut1.err
  /\ Len(Mutations(recOut1.calls)) >= 2
  /\ recOut1.content # recExisting
  /\ recOut1.content # DesiredContent(recCat, recDesired)
  /\ ~recOut2.err
  /\ Mutations(recOut2.calls) # << >>
  /\ recOut2.content = DesiredContent(recCat, recDesired)
  /\ Len(recOut3.calls) = 1

\* ---------------------------------------------------------------------
\* The order of the categories
\* ---------------------------------------------------------------------
\* Categories whose objects are referenced by name, and categories whose
\* objects reference them.
Referenced ==
  {"dictionaries", "acls", "conditions", "healthChecks", "cacheSettings"}

Referencing == {"backends", "headers", "syslogs", "s3s"}

IsMutation(c) == c.op \in {"Create", "Update", "Delete"}

\* The categories service s was reconciled in, in the order of their first
\* calls.
RECURSIVE CategoryTrace(_, _)
CategoryTrace(cs, s) ==
  IF cs = << >> THEN << >>
  ELSE LET front == CategoryTrace(SubSeq(cs, 1, Len(cs) - 1), s)
           c == cs[Len(cs)]
       IN IF c.svc = s /\ c.cat \in Referenced \cup Referencing
             /\ (front = << >> \/ front[Len(front)] # c.cat)
          THEN Append(front, c.cat) ELSE front

\* C17: every create, update and delete for dictionaries, ACLs, conditions,
\* health checks and cache settings of a service comes before the first
\* create, update or delete for its backends, headers, syslogs or S3
\* endpoints, and the categories are visited in one fixed order.
C17_ReferencedFirst ==
  /\ \A i, j \in 1..Len(calls) :
       (/\ calls[i].svc = calls[j].svc
        /\ IsMutation(calls[i]) /\ calls[i].cat \in Referenced
        /\ IsMutation(calls[j]) /\ calls[j].cat \in Referencing) => i < j
  /\ \A s \in Services :
       LET t == CategoryTrace(calls, s)
           fixed == << "dictionaries", "acls", "conditions", "healthChecks",
                       "cacheSettings", "backends", "headers", "syslogs", "s3s" >>
       IN Len(t) <= Len(fixed) /\ t = SubSeq(fixed, 1, Len(t))

C17_Witness ==
  /\ pc = "equal"
  /\ \E i, j \in 1..Len(calls) :
       /\ i < j
       /\ calls[i].svc = calls[j].svc
       /\ calls[i].cat = "cacheSettings" /\ calls[i].op = "Update" /\ calls[i].ok
       /\ calls[j].cat = "backends" /\ calls[j].op = "Update" /\ calls[j].ok
  /\ Len(CategoryTrace(calls, 1)) = 9

\* ---------------------------------------------------------------------
\* Placeholders and tokens in the desired list
\* ---------------------------------------------------------------------
\* C18: a zero-value placeholder entry in a desired list never causes a
\* Create, Update or Delete call: every such call is for a named object.
C18_PlaceholderNoCall ==
  RecRan =>
    \A i \in 1..Len(recOut1.calls) :
      IsMutation(recOut1.calls[i]) =>
        /\ recOut1.calls[i].name \in Names
        /\ recOut1.calls[i].op # "Delete" => recOut1.calls[i].obj.Name \in Names

HasToken(d) == \E i \in 1..Len(d) : d[i].Name = Token \/ d[i].val = Token

\* The stored object that desired entry d of service svc stands for.
Resolved(cat, svc, d) ==
  [Name |-> IF cat \in NameTokenCats THEN Substitute(svc, d.Name) ELSE d.Name,
   val |-> IF cat \in DefaultingCats /\ d.val = 0 THEN DefaultVal
           ELSE IF cat \in ValTokenCats THEN Substitute(svc, d.val)
           ELSE d.val]

\* The draft holds exactly the objects the desired list stands for.
DraftResolves(cat, existing, d) ==
  /\ cat \in DefaultingCats => NoPlaceholder(d)
  /\ existing = {Resolved(cat, 1, d[i]) : i \in {j \in 1..Len(d) : d[j] # ZeroObj}}

\* C19: tokens in desired fields are substituted before the comparison with
\* the remote objects: when the draft already holds the objects with the
\* substituted values, the reconciler issues no mutation.
C19_TokensSubstitutedFirst ==
  (RecRan /\ HasToken(recDesired)
     /\ DraftResolves(recCat, recExisting, recDesired)) =>
       Mutations(recOut1.calls) = << >>

C19_Witness ==
  /\ recPc = "ran1"
  /\ recCat = "domains"
  /\ Len(recDesired) = 2
  /\ recDesired[2].Name = Token
  /\ DraftResolves(recCat, recExisting, recDesired)
  /\ ~recOut1.err
  /\ Len(recOut1.calls) = 1
  /\ recOut1.content = recExisting

\* ---------------------------------------------------------------------
\* The changed flag of the container reconcilers
\* ---------------------------------------------------------------------
\* C20: syncDictionaries and syncACLs return changed = true whenever they
\* created or deleted at least one container, and changed = false when they
\* completed without issuing a mutation.
C20_ChangedReportsContainers ==
  (RecRan /\ recCat \in ContainerCats) =>
     /\ (HasOp(recOut1.calls, "Create") \/ HasOp(recOut1.calls, "Delete"))
           => recOut1.changed
     /\ (~recOut1.err /\ Mutations(recOut1.calls) = << >>) => ~recOut1.changed

C20_Witness ==
  /\ recPc = "ran1"
  /\ recCat = "acls"
  /\ ~recOut1.err
  /\ HasOp(recOut1.calls, "Create")
  /\ HasOp(recOut1.calls, "Delete")
  /\ recOut1.changed

\* ---------------------------------------------------------------------
\* Containers keep their non-versioned entries
\* ---------------------------------------------------------------------
\* C21: syncDictionaries and syncACLs never delete, nor delete and
\* re-create, a container whose name is in the desired list: every Create
\* is for a desired name absent from the draft, every Delete for a draft
\* name absent from the desired list, there is no other mutation, and a
\* container of the draft with a desired name is still there afterwards.
C21_DesiredContainersSurvive ==
  (RecRan /\ recCat \in ContainerCats) =>
     /\ \A i \in 1..Len(recOut1.calls) :
          LET c == recOut1.calls[i]
          IN /\ c.op \in {"List", "Create", "Delete"}
             /\ c.op = "Create" =>
                  /\ c.name \in DesiredNames(recDesired)
                  /\ c.name \notin NamesOf(recExisting)
             /\ c.op = "Delete" =>
                  /\ c.name \in NamesOf(recExisting)
                  /\ c.name \notin DesiredNames(recDesired)
     /\ \A e \in recExisting :
          e.Name \in DesiredNames(recDesired) => e \in recOut1.content

C21_Witness ==
  /\ recPc = "ran1"
  /\ recCat = "dictionaries"
  /\ ~recOut1.err
  /\ NamesOf(recExisting) = {1, 2}
  /\ DesiredNames(recDesired) = {1}
  /\ Len(Mutations(recOut1.calls)) = 1
  /\ HasOp(recOut1.calls, "Delete")
  /\ NamesOf(recOut1.content) = {1}

BadInvocation ==
  \/ ~flags.interactive /\ ~flags.assumeYes
  \/ ~flags.all /\ flags.args = {}
  \/ flags.all /\ flags.args # {}

\* C23: push invoked without a terminal and without --assume-yes, or with
\* neither service names nor --all, or with both, fails before any API
\* call is made.
C23_BadInvocationNoCall ==
  BadInvocation => /\ pc \in {"start", "failed"}
                   /\ calls = << >>
                   /\ prompts = << >>

C23_Witness ==
  /\ pc = "failed"
  /\ flags.assumeYes /\ ~flags.all /\ flags.args = {}
  /\ calls = << >>
  /\ run = 2

\* ---------------------------------------------------------------------
\* A failing service ends the run
\* ---------------------------------------------------------------------
\* The run ended while syncConfig was at a targeted service.
ServiceFailed ==
  /\ pc \in {"failed", "crashed"}
  /\ svcIdx \in 1..Len(services)

\* The services listed after the one syncConfig is at.
LaterServices == {services[j].ID : j \in (svcIdx + 1)..Len(services)}

NoLaterServiceCalled == \A i \in 1..Len(calls) : calls[i].svc \notin LaterServices

\* C24: if reconciliation, validation or activation fails for a targeted
\* service, push stops with a non-zero exit that names that service, and no
\* API call is issued for a service later in the service list.
C24_FailureStopsNamingService ==
  ServiceFailed =>
    /\ exit.code = "error"
    /\ exit.svc = services[svcIdx].Name
    /\ NoLaterServiceCalled

\* The last API call of the run is a version listing or a Clone of
\* prepareNewVersion that failed.
DraftFailed ==
  /\ Len(calls) >= 1
  /\ calls[Len(calls)].op \in {"VersionList", "Clone"}
  /\ ~calls[Len(calls)].ok

RunEnded == pc \in {"done", "failed", "crashed"}

\* C25 (as stated): after a version listing or cloning failure for one
\* service the remaining targeted services are still reconciled in the same
\* run.
C25_OtherServicesStillReconciled ==
  (RunEnded /\ DraftFailed) =>
    \A j \in 1..Len(services) :
      (services[j].Name \in DOMAIN siteConfigs
         /\ Selected(flags, services[j].Name)) =>
        \E i \in 1..Len(calls) : calls[i].svc = services[j].ID

\* C25 (amended): a version listing or cloning failure while obtaining the
\* draft of one service ends the whole run with a non-zero exit: no API
\* call follows, and none is issued for the services later in the list.
C25_DraftFailureEndsRun ==
  DraftFailed =>
    /\ pc \in {"failed", "crashed"}
    /\ exit.code \in {"error", "panic"}
    /\ svcIdx \in 1..Len(services)
    /\ calls[Len(calls)].svc = services[svcIdx].ID
    /\ NoLaterServiceCalled

C25_Witness ==
  /\ DraftFailed
  /\ pc = "failed"
  /\ svcIdx = 1
  /\ Len(services) = 2
  /\ services[2].Name \in DOMAIN siteConfigs
  /\ Selected(flags, services[2].Name)
  /\ NoLaterServiceCalled

\* C26: when the version List call or the Clone call fails,
\* prepareNewVersion returns the error to its caller as an error value (the
\* run ends with syncConfig's exit error), leaves the Draft Registry as it
\* was (without an entry for the service), and does not crash.
C26_DraftFailureIsAnError ==
  DraftFailed =>
    /\ pc = "failed"
    /\ exit = ExitError(services[svcIdx].Name)
    /\ services[svcIdx].ID \notin DOMAIN pendingVersions

\* ---------------------------------------------------------------------
\* util.VersionsEqual
\* ---------------------------------------------------------------------
\* The diff request VersionsEqual issues for versions a and b of service s.
IsDiff(c, s, a, b) ==
  c.op = "Diff" /\ c.cat = "equal" /\ c.svc = s /\ c.ver = a /\ c.arg = b

\* The two diff texts the server holds for (from, from) and (from, to) are
\* the same.
TextsIdentical(s, from, to) ==
  DiffText(content[s], from, from) = DiffText(content[s], from, to)

\* C27: VersionsEqual(from, to) requests exactly two diffs, first
\* (from, from) and then (from, to), and returns true exactly when the two
\* diff texts are identical; if either request fails it returns false
\* together with the error (and requests nothing more).
C27_VersionsEqualTwoDiffs ==
  /\ [](pc = "equal" =>
         \A f \in 1..2 :
           LET ve == VersionsEqual(Cur.ID, content[Cur.ID], Cur.Version,
                                   Len(content[Cur.ID]), f)
           IN ve.err /\ ~ve.equal /\ Len(ve.calls) = f /\ ~ve.calls[f].ok)
  /\ [][(pc = "equal" /\ Cur.ID \in DOMAIN pendingVersions) =>
          LET from == Cur.Version
              to == pendingVersions[Cur.ID].Number
              N == NewCalls
          IN /\ Len(N) \in 1..2
             /\ IsDiff(N[1], Cur.ID, from, from)
             /\ Len(N) = 2 <=> N[1].ok
             /\ Len(N) = 2 => IsDiff(N[2], Cur.ID, from, to)
             /\ equalRes'[Cur.ID] =
                  (IF ~N[Len(N)].ok THEN "error"
                   ELSE IF TextsIdentical(Cur.ID, from, to) THEN "equal"
                   ELSE "differ")]_vars

C27_Witness ==
  /\ pc = "synced"
  /\ Len(calls) >= 2
  /\ IsDiff(calls[Len(calls) - 1], Cur.ID, Cur.Version, Cur.Version)
  /\ IsDiff(LastCall, Cur.ID, Cur.Version, DraftOf(Cur.ID))
  /\ LastCall.ok
  /\ DraftOf(Cur.ID) # Cur.Version
  /\ TextsIdentical(Cur.ID, Cur.Version, DraftOf(Cur.ID))
  /\ equalRes[Cur.ID] = "equal"

\* ---------------------------------------------------------------------
\* The loaded configuration is read-only
\* ---------------------------------------------------------------------
\* C28: reconciling a service never modifies siteConfigs: every desired
\* list has the same entries, order and field values after each step of
\* syncService as before it, although the reconcilers write defaults and
\* substitutions into the entries of the list they are handed.
C28_SiteConfigsUnmodified == [][siteConfigs' = siteConfigs]_vars

C28_Witness ==
  /\ pc = "sync"
  /\ siteConfigs[Cur.Name]["healthChecks"] = << DesiredObj(1, 0) >>
  /\ \E i \in 1..Len(calls) :
       /\ calls[i].cat = "healthChecks" /\ calls[i].op = "Create" /\ calls[i].ok
       /\ calls[i].obj = DesiredObj(1, DefaultVal)

\* ---------------------------------------------------------------------
\* Mutations go to the draft
\* ---------------------------------------------------------------------
\* A call of a reconciler that changes a version.
ChangesVersion(c) ==
  ReconcilerCall(c) /\ c.op \in {"Create", "Update", "Delete", "SettingsUpdate"}

\* C29: no create, update or delete issued by a reconciler targets the
\* service's active version or a locked version: when the call is issued
\* its target is a version that is neither active nor locked.
C29_MutationsTargetDraft ==
  [][\A i \in 1..Len(NewCalls) :
       ChangesVersion(NewCalls[i]) =>
         LET v == versions'[NewCalls[i].svc][NewCalls[i].ver]
         IN /\ ~v.Active /\ ~v.Locked
            /\ NewCalls[i].ver # Cur.Version]_vars

C29_Witness ==
  /\ pc = "sync"
  /\ Len(versions[Cur.ID]) = 3
  /\ versions[Cur.ID][2].Locked
  /\ \E i \in 1..Len(calls) :
       /\ ChangesVersion(calls[i]) /\ calls[i].ok
       /\ calls[i].svc = Cur.ID /\ calls[i].ver = 3
  /\ ~versions[Cur.ID][3].Active /\ ~versions[Cur.ID][3].Locked

\* ---------------------------------------------------------------------
\* The pager
\* ---------------------------------------------------------------------
\* C30: when ActivateVersion shows the diff through a pager, control
\* returns to the activation prompt once the pager process has exited,
\* whether or not the pager consumed the whole diff.
C30_PagerExitReachesPrompt == (pgPager = "exited") ~> (pgMain = "prompt")

\* ---------------------------------------------------------------------
\* Which services are reconciled
\* ---------------------------------------------------------------------
\* The remote services that have an entry in the config file and are named
\* on the command line or selected by --all.
Qualifying ==
  {s \in Services : s \in DOMAIN siteConfigs /\ (flags.all \/ s \in flags.args)}

\* C31: push issues API calls only for remote services with an entry in
\* the config file that are named on the command line or selected by
\* --all; when no remote service qualifies the run fails after the service
\* listing, having called no service; a run that succeeds had one.
C31_OnlyQualifyingServices ==
  /\ \A i \in 1..Len(calls) : calls[i].svc # 0 => calls[i].svc \in Qualifying
  /\ (Qualifying = {} /\ pc \in {"done", "failed", "crashed"}) =>
        /\ pc = "failed"
        /\ exit = ExitError(0)
        /\ Len(calls) <= 1
  /\ (pc = "failed" /\ services # << >> /\ svcIdx > Len(services)) =>
        Qualifying = {}

C31_Witness ==
  /\ pc = "failed"
  /\ Len(services) = 2
  /\ svcIdx = 3
  /\ DOMAIN siteConfigs = {1}
  /\ flags.args = {2}
  /\ Len(calls) = 1
  /\ exit = ExitError(0)

\* ---------------------------------------------------------------------
\* The address fields of a backend
\* ---------------------------------------------------------------------
SetFields(b) ==
  {f \in {"Address", "Hostname", "IPV4", "IPV6"} : b[f] # EmptyStr}

\* C32: before comparing, syncBackends completes the related address
\* fields of a desired backend as the API does: an Address that is a host
\* name also sets Hostname, an IPv4 literal IPV4, an IPv6 literal IPV6, and
\* a backend given only Hostname, IPV4 or IPV6 gets that value as Address.
C32_AddressFieldsCompleted ==
  (bk.pc = "done" /\ ~bk.out.err) =>
    LET in == Replaced(bk.in)
        out == bk.out.backend
    IN /\ in.Address \in {HostStr, ServiceNameStr} => out.Hostname = in.Address
       /\ in.Address = V4Str => out.IPV4 = V4Str /\ out.IPV6 = EmptyStr
       /\ in.Address = V6Str => out.IPV6 = V6Str /\ out.IPV4 = EmptyStr
       /\ \A f \in {"Hostname", "IPV4", "IPV6"} :
            SetFields(in) = {f} => out.Address = in[f]

\* C33: a desired backend that, after token substitution, has more than
\* one of Address, Hostname, IPV4 and IPV6 set makes syncBackends return an
\* error that names the backend, without any backend call; and
\* checkMutuallyExclusive is true exactly when at most one argument is set.
C33_ExclusiveFieldsChecked ==
  bk.pc = "done" =>
    LET in == Replaced(bk.in)
    IN /\ Cardinality(SetFields(in)) > 1 =>
            /\ bk.out.err
            /\ bk.out.named = bk.in.Name
            /\ bk.out.calls = << >>
       /\ checkMutuallyExclusive(in.Address, in.Hostname, in.IPV4, in.IPV6)
            <=> Cardinality(SetFields(in)) <= 1
       /\ Cardinality(SetFields(in)) <= 1 => ~bk.out.err

C33_Witness ==
  /\ bk.pc = "done"
  /\ bk.in.Address = ServiceToken
  /\ bk.in.IPV4 = V4Str
  /\ bk.in.Hostname = EmptyStr /\ bk.in.IPV6 = EmptyStr
  /\ bk.out.err
  /\ bk.out.calls = << >>

\* ---------------------------------------------------------------------
\* The acl entry commands
\* ---------------------------------------------------------------------
AclRan(cmd) == aclCmd.pc = "done" /\ aclCmd.cmd = cmd

Deletes == {i \in 1..Len(aclCmd.out.calls) : aclCmd.out.calls[i].op = "ACLEntry.Delete"}

Listed ==
  \E i \in 1..Len(aclCmd.out.calls) :
    aclCmd.out.calls[i].op = "ACLEntry.List" /\ aclCmd.out.calls[i].ok

Matching ==
  {e \in aclCmd.entries :
     e.IP = aclCmd.out.split.ip /\ e.Subnet = aclCmd.out.split.subnet}

\* C34: acl entry-rm issues a Delete only for an existing entry of the ACL
\* whose IP and subnet equal the requested ones; when no entry matches it
\* fails with "Unable to find ACL entry" and issues no Delete.
C34_DeleteOnlyMatchingEntry ==
  AclRan("entry-rm") =>
    /\ \A i \in Deletes : \E e \in Matching : e.ID = aclCmd.out.calls[i].id
    /\ (Listed /\ Matching = {}) =>
         /\ aclCmd.out.exit = AclError("Unable to find ACL entry")
         /\ Deletes = {}

\* The two parts of an argument of the form IP/MASK.
Parts == Split(aclCmd.arg, "/")

\* C37: for an argument IP/MASK, ipMaskSplit returns an error or a subnet
\* numerically equal to MASK, never a different subnet.
C37_SubnetEqualsMask ==
  (aclCmd.pc = "done" /\ Len(Parts) = 2) =>
    \/ aclCmd.out.split.err
    \/ /\ \A i \in 1..Len(Parts[2]) : IsDigit(Parts[2][i]) \/ (i = 1 /\ Parts[2][i] \in {"+", "-"})
       /\ aclCmd.out.split.subnet =
            IF Parts[2][1] = "-" THEN 0 - Decimal(Tail(Parts[2]))
            ELSE IF Parts[2][1] = "+" THEN Decimal(Tail(Parts[2]))
            ELSE Decimal(Parts[2])

\* ---------------------------------------------------------------------
\* Clones and the marker comment
\* ---------------------------------------------------------------------
\* C35: every version the tool creates by Clone ends up carrying the
\* marker comment: no outcome of prepareNewVersion, an error return
\* included, leaves a clone without the marker on the remote side.
C35_CloneCarriesMarker ==
  [][\A i \in 1..Len(NewCalls) :
       (NewCalls[i].op = "Clone" /\ NewCalls[i].ok) =>
         LET vs == versions'[NewCalls[i].svc]
         IN /\ Len(vs) = Len(versions[NewCalls[i].svc]) + 1
            /\ vs[Len(vs)].Comment = versionComment]_vars

\* ---------------------------------------------------------------------
\* The active version of a fetched service
\* ---------------------------------------------------------------------
PrepCalls(op) ==
  {i \in 1..Len(pv.prep.calls) : pv.prep.calls[i].op = op}

\* C36: the version prepareNewVersion clones, and the threshold above
\* which it recognises a reusable draft, is the active version number that
\* syncService gets from GetActiveVersion, for every service for which
\* GetActiveVersion succeeds, a service with an unfilled Version included.
C36_DraftFromActiveVersion ==
  (pv.pc = "done" /\ ~pv.active.err /\ pv.prep.calls # << >>
     /\ pv.prep.calls[1].ok) =>
    LET D == Drafts(pv.s.Versions, pv.active.number)
    IN /\ \A i \in PrepCalls("Clone") : pv.prep.calls[i].ver = pv.active.number
       /\ PrepCalls("Clone") # {} <=> D = {}
       /\ D # {} => pv.prep.version = pv.s.Versions[MinOf(D)]

====
